---- MODULE Spec2Model ----
(***************************************************************************)
(* Model of the cartographic composition core of picture-out:             *)
(*   plotting.py            normalization ranges, grid composition driver, *)
(*                          decoration placement                           *)
(*   colormaps.py           palette resolver and its cache                 *)
(*   colormap_importer.py   registration of imported palettes              *)
(*   interactive_preview.py preview window, offset store                   *)
(*   gui_app.py             the callers (preview_grid, export_grid)        *)
(*                                                                         *)
(* Floating point values are modelled as fixed point numbers in            *)
(* hundredths (value ranges) or in ten-thousandths of the figure/axes      *)
(* (positions); NaN is the empty tuple, a finite value v is <<v>>.         *)
(***************************************************************************)
EXTENDS Integers, Sequences, FiniteSets, TLC

VARIABLES
    \* ---- normalization engine (plotting.py) ----
    arrs,        \* the ingested grids of the composition, one per panel
    rng,         \* the call last made to the normalization code and its result
    \* ---- composition driver (plotting.py), one call at a time ----
    pc,          \* the statement the running composition is at, or "idle"
    call,        \* the arguments of the running (or last) composition
    calls,       \* number of compositions started in this process
    ingested,    \* number of grids ingested so far
    pi,          \* the loop variable i of the panel loop (1-based)
    fig,         \* the figure of the running (or last) composition, 0 if none
    figs,        \* the figures pyplot holds open
    normed,      \* the panels whose value range has been computed
    images,      \* the panels whose image has been drawn, in drawing order
    cbars,       \* the colorbars drawn: a panel index, or 0 for the shared one
    scales,      \* the panels a scale bar has been drawn on, in drawing order
    norths,      \* the panels a north indicator has been drawn on
    files,       \* the output files the running (or last) composition wrote
    outcome,     \* how the last composition ended, and what it returned
    drawn,       \* what has been drawn on the figure, in drawing order
    \* ---- palette registry (colormaps.py, colormap_importer.py) ----
    CMAP_REGISTRY,        \* the registry: key -> entry
    mpl_cmaps,            \* the names matplotlib knows, each with its palette
    _CMAP_OBJECT_CACHE,   \* resolve_cmap's cache: key -> palette
    lastcmap,             \* the last palette operation and what it returned
    \* ---- preview window and offset store (interactive_preview.py, gui_app.py) ----
    store,       \* the file position_adjustments.json
    win,         \* the InteractivePreviewWindow: its fields, and whether it exists
    draws,       \* number of grid compositions requested from the GUI
    used,        \* the offsets the last grid composition was drawn with
    reported,    \* the offsets of the last save the window reported as successful
    \* ---- decoration anchors (plotting.py) ----
    deco,        \* the last decoration drawing: arguments, offsets, anchors
    \* ---- helper functions (plotting.py, geo_io.py, interactive_preview.py) ----
    calc,        \* the last call of a helper: its name, arguments and result
    \* ---- view lock of the preview window (interactive_preview.py) ----
    lock         \* the window's view lock, its timer callback and the view

rangeVars == <<arrs, rng>>
gridVars == <<pc, call, calls, ingested, pi, fig, figs, normed, images, cbars, scales,
              norths, files, outcome, drawn>>
paletteVars == <<CMAP_REGISTRY, mpl_cmaps, _CMAP_OBJECT_CACHE, lastcmap>>
previewVars == <<store, win, draws, used, reported>>
posVars == <<deco>>
helperVars == <<calc, lock>>
\* what a helper call and the view lock leave alone
offHelper == <<rangeVars, gridVars, paletteVars, previewVars, posVars, lock>>
offLock == <<rangeVars, gridVars, paletteVars, previewVars, posVars, calc>>
vars == <<rangeVars, gridVars, paletteVars, previewVars, posVars, helperVars>>
\* what the normalization code and the composition driver leave alone
offRange == <<gridVars, paletteVars, previewVars, posVars, helperVars>>
offGrid == <<rangeVars, paletteVars, previewVars, posVars, helperVars>>

(***************************************************************************)
(* Floats                                                                  *)
(***************************************************************************)
NaN == << >>
Fl(v) == <<v>>
isfinite(x) == x # NaN
Num(x) == x[1]

\* 0.0 and 1.0 in hundredths: the fallback range of the normalization
Zero == Fl(0)
One == Fl(100)

Min(S) == CHOOSE m \in S : \A y \in S : m <= y
Max(S) == CHOOSE m \in S : \A y \in S : m >= y

\* the finite values of an array (a sequence of floats)
FiniteValues(a) == {Num(a[i]) : i \in {j \in DOMAIN a : isfinite(a[j])}}

\* numpy.nanmin / numpy.nanmax: NaN cells are ignored, an all-NaN array
\* gives NaN (with a warning, not an error)
nanmin(a) == IF FiniteValues(a) = {} THEN NaN ELSE Fl(Min(FiniteValues(a)))
nanmax(a) == IF FiniteValues(a) = {} THEN NaN ELSE Fl(Max(FiniteValues(a)))

\* arr[np.isfinite(arr)] sorted ascending (numpy sorts inside nanpercentile)
RECURSIVE SortedFinite(_)
SortedFinite(a) ==
    IF FiniteValues(a) = {} THEN << >>
    ELSE LET m == Min(FiniteValues(a))
             k == CHOOSE i \in DOMAIN a : a[i] = Fl(m)
             rest == [i \in 1..(Len(a) - 1) |-> IF i < k THEN a[i] ELSE a[i + 1]]
         IN  <<m>> \o SortedFinite(rest)

\* numpy.nanpercentile(valid, q), linear interpolation between the two
\* closest ranks: rank = q/100 * (n-1)
nanpercentile(valid, q) ==
    LET s == SortedFinite(valid)
        n == Len(s)
        r == q * (n - 1)
        lo == r \div 100
        hi == IF r % 100 = 0 THEN lo ELSE lo + 1
    IN  IF n = 0 THEN NaN
        ELSE Fl(s[lo + 1] + ((r % 100) * (s[hi + 1] - s[lo + 1])) \div 100)

(***************************************************************************)
(* Normalization engine                                                    *)
(***************************************************************************)
\* an optional float argument: None, or a float (which may be NaN)
None == [given |-> FALSE, v |-> NaN]
Some(x) == [given |-> TRUE, v |-> x]
\* an optional percentile (a number of percent) and an optional flag
NoPct == [given |-> FALSE, v |-> 0]
Pct(q) == [given |-> TRUE, v |-> q]
NoFlag == [given |-> FALSE, v |-> FALSE]
Flag(b) == [given |-> TRUE, v |-> b]

Fallback_strict(lo, hi) ==
    IF ~isfinite(lo) \/ ~isfinite(hi) \/ Num(lo) > Num(hi)
    THEN [vmin |-> Zero, vmax |-> One]
    ELSE [vmin |-> lo, vmax |-> hi]

Fallback(lo, hi) ==
    IF ~isfinite(lo) \/ ~isfinite(hi) \/ Num(lo) >= Num(hi)
    THEN [vmin |-> Zero, vmax |-> One]
    ELSE [vmin |-> lo, vmax |-> hi]

\* _make_grid_map_impl, use_shared_cbar: global vmin / vmax
global_vmin_first(as) == IF as # << >> THEN nanmin(as[1]) ELSE Zero

global_vmin(as) ==
    IF as # << >> THEN nanmin([i \in DOMAIN as |-> nanmin(as[i])]) ELSE Zero

auto_vmax(as) ==
    IF as # << >> THEN nanmax([i \in DOMAIN as |-> nanmax(as[i])]) ELSE One

global_vmax(as, share_vmax) ==
    IF share_vmax.given THEN share_vmax.v ELSE auto_vmax(as)

shared_range(as, share_vmax) ==
    Fallback(global_vmin(as), global_vmax(as, share_vmax))

\* _make_grid_map_impl, not use_shared_cbar: the range of one panel
vmin_i(arr) == IF FiniteValues(arr) # {} THEN nanmin(arr) ELSE Zero

vmax_i(arr, per_use_auto_vmax, per_vmax_percentile) ==
    IF per_use_auto_vmax \/ ~per_vmax_percentile.given \/ FiniteValues(arr) = {}
    THEN IF FiniteValues(arr) # {} THEN nanmax(arr) ELSE One
    ELSE nanpercentile(arr, per_vmax_percentile.v)

panel_range(arr, per_use_auto_vmax, per_vmax_percentile) ==
    Fallback(vmin_i(arr), vmax_i(arr, per_use_auto_vmax, per_vmax_percentile))

\* _make_single_map_impl: automatic vmin / vmax around the user's values
single_range(arr, vmin, vmax) ==
    Fallback(IF vmin.given THEN vmin.v ELSE nanmin(arr),
             IF vmax.given THEN vmax.v ELSE nanmax(arr))

\* make_grid_map: per_use_auto_vmax is a keyword argument that defaults to
\* True and is handed on unchanged
make_grid_map_panel_range(arr, per_use_auto_vmax, per_vmax_percentile) ==
    panel_range(arr,
                IF per_use_auto_vmax.given THEN per_use_auto_vmax.v ELSE TRUE,
                per_vmax_percentile)

(***************************************************************************)
(* Inputs of the normalization engine                                      *)
(***************************************************************************)
MaxPanels == 2

\* cell values of the test rasters (in data units) and the cells of a grid;
\* a grid is a 1 x 2 raster
Vals == {0, 5, 10, 20}
Cell == {NaN} \cup {Fl(100 * v) : v \in Vals}
GridShape == {1, 2}
Grid == [GridShape -> Cell]
PanelLists == UNION {[1..n -> Grid] : n \in 0..MaxPanels}

ShareVmaxInputs == {None, Some(NaN)} \cup {Some(Fl(100 * v)) : v \in Vals}
PctInputs == {NoPct, Pct(50), Pct(98), Pct(100)}
FlagInputs == {NoFlag, Flag(TRUE), Flag(FALSE)}
UserVminInputs == {None, Some(Fl(500))}
UserVmaxInputs == {None, Some(NaN), Some(Fl(0)), Some(Fl(1000))}

NoRange == [vmin |-> NaN, vmax |-> NaN]
NoCall == [mode |-> "none", share_vmax |-> None, auto |-> NoFlag, pct |-> NoPct,
           uvmin |-> None, uvmax |-> None, g |-> NoRange, ranges |-> << >>]

\* shared mode: one range, used for every panel image and for the colorbar
SharedMode ==
    /\ rng.mode = "none"
    /\ \E sv \in ShareVmaxInputs :
         rng' = [NoCall EXCEPT !.mode = "shared", !.share_vmax = sv,
                   !.g = shared_range(arrs, sv),
                   !.ranges = [i \in DOMAIN arrs |-> shared_range(arrs, sv)]]
    /\ UNCHANGED <<arrs, offRange>>

\* per-panel mode through make_grid_map: every panel gets its own range
PerPanelMode ==
    /\ rng.mode = "none"
    /\ \E a \in FlagInputs, q \in PctInputs :
         rng' = [NoCall EXCEPT !.mode = "panel", !.auto = a, !.pct = q,
                   !.ranges = [i \in DOMAIN arrs |->
                                 make_grid_map_panel_range(arrs[i], a, q)]]
    /\ UNCHANGED <<arrs, offRange>>

\* single map: one grid, optional user vmin / vmax
SingleMap ==
    /\ rng.mode = "none"
    /\ Len(arrs) = 1
    /\ \E lo \in UserVminInputs, hi \in UserVmaxInputs :
         rng' = [NoCall EXCEPT !.mode = "single", !.uvmin = lo, !.uvmax = hi,
                   !.g = single_range(arrs[1], lo, hi),
                   !.ranges = <<single_range(arrs[1], lo, hi)>>]
    /\ UNCHANGED <<arrs, offRange>>

RangeIdle == arrs = << >> /\ rng = NoCall


(***************************************************************************)
(* Composition driver: _make_grid_map_impl and _make_single_map_impl as    *)
(* the sequence of their statements.  An exception ends the call where it  *)
(* is raised; nothing in either function catches it.                       *)
(***************************************************************************)
MaxCalls == 2

NoArgs == [kind |-> "none", n |-> 0, caption |-> FALSE,
           use_shared_cbar |-> FALSE, use_shared_scale |-> FALSE,
           use_shared_north |-> FALSE, preview |-> FALSE,
           save_png |-> FALSE, save_pdf |-> FALSE]
NoOutcome == [how |-> "none", at |-> "idle", why |-> "", handle |-> 0]

GridIdle ==
    /\ pc = "idle" /\ call = NoArgs /\ calls = 0 /\ ingested = 0 /\ pi = 0
    /\ fig = 0 /\ figs = {} /\ normed = {} /\ images = << >> /\ cbars = << >>
    /\ scales = << >> /\ norths = << >> /\ files = {} /\ outcome = NoOutcome
    /\ drawn = << >>

\* the arguments a composition can be called with: the panel count, the
\* flags, and which output paths are given (non-empty)
GridArgs ==
    [kind : {"grid"}, n : 1..MaxPanels, caption : BOOLEAN,
     use_shared_cbar : BOOLEAN, use_shared_scale : BOOLEAN,
     use_shared_north : BOOLEAN, preview : BOOLEAN,
     save_png : BOOLEAN, save_pdf : BOOLEAN]
SingleArgs ==
    [kind : {"single"}, n : {1}, caption : {FALSE},
     use_shared_cbar : {FALSE}, use_shared_scale : {FALSE},
     use_shared_north : {FALSE}, preview : BOOLEAN,
     save_png : BOOLEAN, save_pdf : BOOLEAN]

\* the exception leaves the function: no statement after it runs
Raise(why) ==
    /\ pc' = "idle"
    /\ outcome' = [how |-> "raised", at |-> pc, why |-> why, handle |-> 0]

\* make_grid_map / make_single_map is called
Start ==
    /\ pc = "idle" /\ calls < MaxCalls
    /\ call' \in GridArgs \cup SingleArgs
    /\ calls' = calls + 1
    /\ pc' = "border"
    /\ ingested' = 0 /\ pi' = 0 /\ fig' = 0 /\ normed' = {} /\ images' = << >>
    /\ cbars' = << >> /\ scales' = << >> /\ norths' = << >> /\ files' = {}
    /\ outcome' = NoOutcome /\ drawn' = << >>
    /\ UNCHANGED <<figs, offGrid>>

\* what read_border_gdf can find at the boundary path
BorderStates == {"ok", "missing", "nocrs"}

\* read_border_gdf: raises when the path is empty or missing (FileNotFoundError)
\* and when the file declares no CRS (ValueError)
read_border_gdf ==
    /\ pc = "border"
    /\ \E border \in BorderStates :
         IF border = "ok"
         THEN pc' = "ingest" /\ UNCHANGED outcome
         ELSE Raise(border)
    /\ UNCHANGED <<call, calls, ingested, pi, fig, figs, normed, images, cbars, scales,
                   norths, files, drawn, offGrid>>

\* the canvas is created right after the ingestion
AfterIngest_no_range == "canvas"

\* where the driver goes when every grid is ingested: the shared range is
\* computed before the canvas; the single map computes its range there too
AfterIngest == IF call.kind = "single" \/ call.use_shared_cbar THEN "range" ELSE "canvas"

\* one turn of the loop over tif_list: resolve_path + read_project_clip;
\* resolve_path raises FileNotFoundError when the path matches no file
read_project_clip ==
    /\ pc = "ingest"
    /\ \E found \in BOOLEAN :
         IF ~found
         THEN Raise("not found") /\ UNCHANGED ingested
         ELSE /\ ingested' = ingested + 1
              /\ pc' = IF ingested + 1 = call.n THEN AfterIngest ELSE "ingest"
              /\ UNCHANGED outcome
    /\ UNCHANGED <<call, calls, pi, fig, figs, normed, images, cbars, scales,
                   norths, files, drawn, offGrid>>

\* the global vmin / vmax (shared mode), or vmin / vmax of the single map
compute_range ==
    /\ pc = "range"
    /\ normed' = 1..call.n
    /\ pc' = "canvas"
    /\ UNCHANGED <<call, calls, ingested, pi, fig, figs, images, cbars, scales, norths,
                   files, outcome, drawn, offGrid>>

\* the first statement of the body of the panel loop
PanelStart == IF call.kind = "grid" /\ ~call.use_shared_cbar THEN "p_range" ELSE "p_image"

\* plt.figure / plt.subplots: the figure is created and registered in pyplot
create_figure ==
    /\ pc = "canvas"
    /\ fig' = calls
    /\ figs' = figs \cup {[id |-> calls, preview |-> call.preview]}
    /\ pi' = 1
    /\ pc' = PanelStart
    /\ UNCHANGED <<call, calls, ingested, normed, images, cbars, scales, norths, files,
                   outcome, drawn, offGrid>>

\* per-panel mode: vmin_i / vmax_i of panel i, inside the panel loop
panel_vrange ==
    /\ pc = "p_range"
    /\ normed' = normed \cup {pi}
    /\ pc' = "p_image"
    /\ UNCHANGED <<call, calls, ingested, pi, fig, figs, images, cbars, scales, norths,
                   files, outcome, drawn, offGrid>>

\* an entry of the draw log: what was drawn, for which panel (0: the whole
\* figure), and with which range variables (the global pair, or the pair
\* vmin_i / vmax_i of a panel turn)
Drawing(what, panel, range) == [what |-> what, panel |-> panel, range |-> range]
global_range == [of |-> "global", i |-> 0]
range_i(i) == [of |-> "panel", i |-> i]
no_range == [of |-> "none", i |-> 0]
\* every image is drawn with the range of its own panel turn
image_range_own(i) == range_i(i)
\* vmin=(global_vmin if use_shared_cbar else vmin_i), vmax likewise; the
\* single map has one pair only
image_range(i) ==
    IF call.kind = "single" \/ call.use_shared_cbar THEN global_range ELSE range_i(i)

\* ax.imshow of panel i (with the boundary outline and the overlays)
panel_imshow ==
    /\ pc = "p_image"
    /\ images' = Append(images, pi)
    /\ drawn' = Append(drawn, Drawing("image", pi, image_range(pi)))
    /\ pc' = IF call.use_shared_cbar THEN "p_scale" ELSE "p_cbar"
    /\ UNCHANGED <<call, calls, ingested, pi, fig, figs, normed, cbars, scales, norths,
                   files, outcome, offGrid>>

\* the colorbar of panel i (per-panel mode, and the single map)
panel_colorbar ==
    /\ pc = "p_cbar"
    /\ cbars' = Append(cbars, pi)
    /\ drawn' = Append(drawn, Drawing("colorbar", pi, image_range(pi)))
    /\ pc' = "p_scale"
    /\ UNCHANGED <<call, calls, ingested, pi, fig, figs, normed, images, scales, norths,
                   files, outcome, offGrid>>

\* a shared decoration is drawn in the turn of the first panel only
is_last_panel_first(i, n) == i = 1

\* `i == len(tif_list) - 1` with the 0-based i of the source: the last panel
is_last_panel(i, n) == i = n

\* whether the turn of panel i draws a decoration whose shared flag is `shared`
draws_decoration(shared, i, n) == IF shared THEN is_last_panel(i, n) ELSE TRUE

\* the scale bar statement of the loop body (_draw_scale_bar is called or not)
panel_scale_bar ==
    /\ pc = "p_scale"
    /\ scales' = IF draws_decoration(call.use_shared_scale, pi, call.n)
                 THEN Append(scales, pi) ELSE scales
    /\ pc' = "p_north"
    /\ UNCHANGED <<call, calls, ingested, pi, fig, figs, normed, images, cbars, norths,
                   files, outcome, drawn, offGrid>>

\* where the driver goes after the panel loop
Exit == IF call.preview THEN "return_preview" ELSE "save_png"
\* the grid composition has the caption statement before it returns or saves
AfterColorbars == IF call.kind = "grid" THEN "caption" ELSE Exit
AfterPanels == IF call.use_shared_cbar THEN "shared_cbar" ELSE AfterColorbars

\* the north indicator statement, the last one of the loop body
panel_north_arrow ==
    /\ pc = "p_north"
    /\ norths' = IF draws_decoration(call.use_shared_north, pi, call.n)
                 THEN Append(norths, pi) ELSE norths
    /\ IF pi < call.n
       THEN pi' = pi + 1 /\ pc' = PanelStart
       ELSE pi' = pi /\ pc' = AfterPanels
    /\ UNCHANGED <<call, calls, ingested, fig, figs, normed, images, cbars, scales,
                   files, outcome, drawn, offGrid>>

\* the shared colorbar, added after the loop
shared_colorbar ==
    /\ pc = "shared_cbar"
    /\ cbars' = Append(cbars, 0)
    /\ drawn' = Append(drawn, Drawing("colorbar", 0, global_range))
    /\ pc' = AfterColorbars
    /\ UNCHANGED <<call, calls, ingested, pi, fig, figs, normed, images, scales, norths,
                   files, outcome, offGrid>>

\* `if caption: fig.text(...)`, the last drawing statement of the grid
draw_caption ==
    /\ pc = "caption"
    /\ drawn' = IF call.caption THEN Append(drawn, Drawing("caption", 0, no_range))
                 ELSE drawn
    /\ pc' = Exit
    /\ UNCHANGED <<call, calls, ingested, pi, fig, figs, normed, images, cbars, scales,
                   norths, files, outcome, offGrid>>

\* preview: the grid composition returns the figure, the single map shows
\* it and returns None; the figure stays open
return_preview ==
    /\ pc = "return_preview"
    /\ pc' = "idle"
    /\ outcome' = [how |-> "returned", at |-> pc, why |-> "",
                   handle |-> IF call.kind = "grid" THEN fig ELSE 0]
    /\ UNCHANGED <<call, calls, ingested, pi, fig, figs, normed, images, cbars, scales,
                   norths, files, drawn, offGrid>>

\* _safe_save(fig, save_png): nothing when the path is empty
safe_save_png ==
    /\ pc = "save_png"
    /\ files' = IF call.save_png THEN files \cup {"png"} ELSE files
    /\ pc' = "save_pdf"
    /\ UNCHANGED <<call, calls, ingested, pi, fig, figs, normed, images, cbars, scales,
                   norths, outcome, drawn, offGrid>>

\* _safe_save(fig, save_pdf)
safe_save_pdf ==
    /\ pc = "save_pdf"
    /\ files' = IF call.save_pdf THEN files \cup {"pdf"} ELSE files
    /\ pc' = "close"
    /\ UNCHANGED <<call, calls, ingested, pi, fig, figs, normed, images, cbars, scales,
                   norths, outcome, drawn, offGrid>>

\* plt.close(fig) and the return of the export
close_figure ==
    /\ pc = "close"
    /\ figs' = {f \in figs : f.id # fig}
    /\ pc' = "idle"
    /\ outcome' = [how |-> "returned", at |-> pc, why |-> "", handle |-> 0]
    /\ UNCHANGED <<call, calls, ingested, pi, fig, normed, images, cbars, scales, norths,
                   files, drawn, offGrid>>

\* a drawing statement raises (fig.add_subplot with more grids than grid
\* cells, fig.colorbar with an unknown location, to_crs of the boundary, ...)
DrawSteps == {"p_range", "p_image", "p_cbar", "p_scale", "p_north", "shared_cbar",
              "caption"}
draw_raises ==
    /\ pc \in DrawSteps
    /\ Raise("drawing")
    /\ UNCHANGED <<call, calls, ingested, pi, fig, figs, normed, images, cbars, scales,
                   norths, files, drawn, offGrid>>

\* os.makedirs / fig.savefig raises in _safe_save (a path without directory
\* part, an unwritable directory, an unknown file format)
save_raises ==
    /\ \/ pc = "save_png" /\ call.save_png
       \/ pc = "save_pdf" /\ call.save_pdf
    /\ Raise("saving")
    /\ UNCHANGED <<call, calls, ingested, pi, fig, figs, normed, images, cbars, scales,
                   norths, files, drawn, offGrid>>

(***************************************************************************)
(* Palette registry: resolve_cmap (colormaps.py) and                        *)
(* register_imported_colormap (colormap_importer.py).  A palette (a         *)
(* matplotlib Colormap object) is named by where it comes from.             *)
(***************************************************************************)
MaxImports == 2

Palette(src, name, n) == [src |-> src, name |-> name, n |-> n]
\* the palettes matplotlib ships with
builtin_cmaps ==
    ("viridis" :> Palette("mpl", "viridis", 0)) @@ ("plasma" :> Palette("mpl", "plasma", 0))
viridis == builtin_cmaps["viridis"]

\* an entry of CMAP_REGISTRY: 'mpl' names a matplotlib palette, 'colors' is a
\* colour list of its own
Entry(group, kind, v) == [group |-> group, kind |-> kind, v |-> v]
\* the shipped registry, two of its entries
shipped_registry ==
    ("seq_plasma" :> Entry("perceptual", "mpl", "plasma"))
    @@ ("mono_brown" :> Entry("mono", "colors", "mono_brown"))

\* mpl_cm.get_cmap(name): raises for a name matplotlib does not know
get_cmap_raises(name) == name \notin DOMAIN mpl_cmaps
get_cmap(name) == mpl_cmaps[name]

\* the except branches: cmobj = mpl_cm.get_cmap("viridis")
other_fallback == get_cmap("plasma")
fallback == get_cmap("viridis")

\* the palette resolve_cmap builds or fetches on a cache miss
resolve_miss(key) ==
    IF key \notin DOMAIN CMAP_REGISTRY
    THEN IF get_cmap_raises(key) THEN fallback ELSE get_cmap(key)
    ELSE LET entry == CMAP_REGISTRY[key] IN
         IF entry.kind = "mpl"
         THEN IF get_cmap_raises(entry.v) THEN fallback ELSE get_cmap(entry.v)
         ELSE Palette("colors", key, 0)

\* a resolve that keeps one palette for all keys instead of one per key
resolve_one_slot(key) == IF lastcmap.op = "resolve" THEN lastcmap.result ELSE resolve_miss(key)

\* resolve_cmap(key): the cache is consulted first, every result is cached
resolve_cmap(key) ==
    IF key \in DOMAIN _CMAP_OBJECT_CACHE THEN _CMAP_OBJECT_CACHE[key] ELSE resolve_miss(key)

\* the names of imported palette files, and the keys they can get
ImportNames == {"a"}
base_key(name) == "imported_" \o name
ImportedKeys ==
    {base_key(name) : name \in ImportNames}
    \cup {base_key(name) \o "_" \o ToString(c) : name \in ImportNames, c \in 1..(MaxImports - 1)}
\* the keys the callers resolve: shipped keys, matplotlib names, an unknown
\* name, the empty string, and the keys of imported palettes (a key a saved
\* GUI state or the editable palette box still holds from an earlier session)
ResolveKeys == {"seq_plasma", "mono_brown", "plasma", "nosuch", ""} \cup ImportedKeys

\* the while loop of register_imported_colormap
RECURSIVE next_free_key(_, _, _)
next_free_key(bkey, counter, registry_dict) ==
    LET key == bkey \o "_" \o ToString(counter) IN
    IF key \in DOMAIN registry_dict THEN next_free_key(bkey, counter + 1, registry_dict)
    ELSE key
unique_key(name, registry_dict) ==
    IF base_key(name) \in DOMAIN registry_dict
    THEN next_free_key(base_key(name), 1, registry_dict)
    ELSE base_key(name)

\* lastcmap also keeps the keys registered and not resolved since (pending),
\* whether a resolve was the first one after its key's registration, whether
\* it was the first one of its key at all (fresh), and what the first resolve
\* of every key returned (seen)
NoCmapCall == [op |-> "none", key |-> "", result |-> viridis, pending |-> {},
               first |-> FALSE, fresh |-> FALSE, seen |-> << >>]
PaletteIdle ==
    /\ CMAP_REGISTRY = shipped_registry
    /\ mpl_cmaps = builtin_cmaps
    /\ _CMAP_OBJECT_CACHE = << >>
    /\ lastcmap = NoCmapCall

\* a caller resolves a key
Resolve ==
    \E key \in ResolveKeys :
      LET cmobj == resolve_cmap(key) IN
      /\ _CMAP_OBJECT_CACHE' =
             IF key \in DOMAIN _CMAP_OBJECT_CACHE THEN _CMAP_OBJECT_CACHE
             ELSE _CMAP_OBJECT_CACHE @@ (key :> cmobj)
      /\ lastcmap' = [op |-> "resolve", key |-> key, result |-> cmobj,
                      pending |-> lastcmap.pending \ {key},
                      first |-> key \in lastcmap.pending,
                      fresh |-> key \notin DOMAIN lastcmap.seen,
                      seen |-> IF key \in DOMAIN lastcmap.seen THEN lastcmap.seen
                               ELSE lastcmap.seen @@ (key :> cmobj)]
      /\ UNCHANGED <<CMAP_REGISTRY, mpl_cmaps, rangeVars, gridVars, previewVars, posVars,
                     helperVars>>

\* import_colormap_single: a palette file is imported and registered.
\* plt.register_cmap can raise (a name matplotlib already has, or any other
\* failure of the registration); the exception is swallowed.
register_imported_colormap ==
    /\ Cardinality(DOMAIN CMAP_REGISTRY \cap ImportedKeys) < MaxImports
    /\ \E name \in ImportNames, register_cmap_raises \in BOOLEAN :
         LET key == unique_key(name, CMAP_REGISTRY)
             cmap == Palette("file", name, Cardinality(DOMAIN CMAP_REGISTRY))
         IN  /\ mpl_cmaps' = IF register_cmap_raises \/ key \in DOMAIN mpl_cmaps
                             THEN mpl_cmaps
                             ELSE mpl_cmaps @@ (key :> cmap)
             /\ CMAP_REGISTRY' = CMAP_REGISTRY @@ (key :> Entry("imported", "mpl", key))
             /\ lastcmap' = [op |-> "register", key |-> key, result |-> cmap,
                             pending |-> lastcmap.pending \cup {key},
                             first |-> FALSE, fresh |-> FALSE,
                             seen |-> lastcmap.seen]
    /\ UNCHANGED <<_CMAP_OBJECT_CACHE, rangeVars, gridVars, previewVars, posVars, helperVars>>

(***************************************************************************)
(* Preview window and offset store: interactive_preview.py, and the        *)
(* preview_grid / export_grid handlers of gui_app.py.  Offsets are in      *)
(* ten-thousandths of the axes (or figure) size.  One preview window at a  *)
(* time; the store is written by this program only.                        *)
(***************************************************************************)
MaxDraws == 3

AdjKeys == {"cbar_offset_y", "cbar_offset_x", "scale_offset_x", "scale_offset_y",
            "north_offset_x", "north_offset_y"}
DEFAULT_ADJUSTMENTS == [key \in AdjKeys |-> 0]

\* position_adjustments.json: absent, holding a saved dict, or cut short
ADJUSTMENT_FILE(state, v) == [state |-> state, v |-> v]
NoFile == ADJUSTMENT_FILE("absent", DEFAULT_ADJUSTMENTS)
load_adjustments == IF store.state = "ok" THEN store.v ELSE DEFAULT_ADJUSTMENTS

\* what the file system does to open(..., 'w') and json.dump
IoOutcomes == {"written", "denied", "truncated"}
\* save_adjustments: every exception is caught and printed
save_adjustments(adjustments, io) ==
    CASE io = "written"   -> ADJUSTMENT_FILE("ok", adjustments)
      [] io = "denied"    -> store
      [] io = "truncated" -> ADJUSTMENT_FILE("corrupt", DEFAULT_ADJUSTMENTS)

Modes == <<"colorbar", "scale", "north">>
ModeSet == {Modes[j] : j \in 1..3}
Directions == {"up", "down", "left", "right"}
step_map == [small |-> 50, normal |-> 100, large |-> 500]
StepNames == {"small", "normal", "large"}

NoWindow == [exists |-> FALSE, fig |-> 0, adjustments |-> DEFAULT_ADJUSTMENTS,
             adjust_mode |-> "colorbar", view_lock_active |-> FALSE]
NoDraw == [by |-> "none", n |-> 0, v |-> DEFAULT_ADJUSTMENTS]
PreviewIdle ==
    /\ store = NoFile /\ win = NoWindow /\ draws = 0
    /\ used = NoDraw /\ reported = DEFAULT_ADJUSTMENTS

\* what the preview handlers leave alone in the composition driver
driverRest == <<pc, call, calls, ingested, pi, fig, normed, images, cbars, scales,
                norths, files, outcome, drawn>>
offPreview == <<rangeVars, driverRest, paletteVars, posVars, helperVars>>

\* a move that always lands on the colorbar entries, whatever kind is selected
colorbar_key(mode, direction) ==
    "cbar_offset_" \o (IF direction \in {"up", "down"} THEN "y" ELSE "x")

\* the offset entry a direction move changes, and by how much
moved_key(mode, direction) ==
    LET axis == IF direction \in {"up", "down"} THEN "y" ELSE "x" IN
    CASE mode = "colorbar" -> "cbar_offset_" \o axis
      [] mode = "scale"    -> "scale_offset_" \o axis
      [] mode = "north"    -> "north_offset_" \o axis
moved(adjustments, mode, direction, step) ==
    LET key == moved_key(mode, direction)
        d == IF direction \in {"up", "right"} THEN step ELSE 0 - step
    IN  [adjustments EXCEPT ![key] = @ + d]

\* _reset_current
reset_current(adjustments, mode) ==
    CASE mode = "colorbar" ->
           [adjustments EXCEPT !["cbar_offset_y"] = 0, !["cbar_offset_x"] = 0]
      [] mode = "scale" ->
           [adjustments EXCEPT !["scale_offset_x"] = 0, !["scale_offset_y"] = 0]
      [] mode = "north" ->
           [adjustments EXCEPT !["north_offset_x"] = 0, !["north_offset_y"] = 0]

\* _update_display of window w: redraw_with_adjustments closes every figure
\* and composes the grid anew with w's offsets (the grids stay readable
\* while the window is open, so the composition returns a figure)
_update_display(w) ==
    /\ draws' = draws + 1
    /\ figs' = {[id |-> draws + 1, preview |-> TRUE]}
    /\ win' = [w EXCEPT !.fig = draws + 1]
    /\ used' = [by |-> "redraw", n |-> draws + 1, v |-> w.adjustments]

\* preview_grid (gui_app.py): first composition with the stored offsets,
\* then the window is created around the figure
preview_grid ==
    /\ ~win.exists /\ draws < MaxDraws
    /\ draws' = draws + 1
    /\ \E ok \in BOOLEAN :
         IF ok
         THEN /\ figs' = {[id |-> draws + 1, preview |-> TRUE]}
              /\ used' = [by |-> "preview", n |-> draws + 1, v |-> load_adjustments]
              /\ win' = [exists |-> TRUE, fig |-> draws + 1,
                         adjustments |-> load_adjustments,
                         adjust_mode |-> "colorbar", view_lock_active |-> TRUE]
         ELSE /\ figs' = {}
              /\ UNCHANGED <<used, win>>
    /\ UNCHANGED <<store, reported, offPreview>>

\* a direction button
_move_direction ==
    /\ win.exists /\ draws < MaxDraws
    /\ \E direction \in Directions, step_var \in StepNames :
         _update_display(
             [win EXCEPT !.adjustments = moved(@, win.adjust_mode, direction,
                                               step_map[step_var])])
    /\ UNCHANGED <<store, reported, offPreview>>

\* the mode radio buttons
_update_mode ==
    /\ win.exists
    /\ \E mode_var \in ModeSet : win' = [win EXCEPT !.adjust_mode = mode_var]
    /\ UNCHANGED <<figs, store, draws, used, reported, offPreview>>

\* _save_positions: the result of save_adjustments is not looked at, the
\* window always reports success
_save_positions(io) ==
    /\ store' = save_adjustments(win.adjustments, io)
    /\ reported' = win.adjustments
    /\ UNCHANGED <<figs, win, draws, used, offPreview>>

\* the "save positions" button
save_button ==
    /\ win.exists
    /\ \E io \in IoOutcomes : _save_positions(io)

\* _reset_current / _reset_all, each followed by _update_display
_reset_current ==
    /\ _update_display([win EXCEPT !.adjustments = reset_current(@, win.adjust_mode)])
    /\ UNCHANGED <<store, reported, offPreview>>
_reset_all ==
    /\ _update_display([win EXCEPT !.adjustments = DEFAULT_ADJUSTMENTS])
    /\ UNCHANGED <<store, reported, offPreview>>

\* the "reset all" button
reset_all_button ==
    /\ win.exists /\ draws < MaxDraws
    /\ _reset_all

\* key events: the key, and the Shift and Control bits of event.state (each
\* is given where the handler looks at it)
KeyEvent(keysym, shift, ctrl) == [keysym |-> keysym, shift |-> shift, ctrl |-> ctrl]
Arrows == {"Up", "Down", "Left", "Right"}
KeyEvents ==
    {KeyEvent(k, shift, FALSE) : k \in Arrows, shift \in BOOLEAN}
    \cup {KeyEvent("r", FALSE, ctrl) : ctrl \in BOOLEAN}
    \cup {KeyEvent(k, FALSE, FALSE) : k \in {"Tab", "s", "h"}}
arrow_direction == [Up |-> "up", Down |-> "down", Left |-> "left", Right |-> "right"]
next_mode(mode) ==
    LET current_idx == CHOOSE j \in 1..3 : Modes[j] = mode IN Modes[(current_idx % 3) + 1]

\* _on_key_press: Tab cycles the mode, an arrow moves by 0.01 (0.05 with
\* Shift), Ctrl+R resets all, r the current kind, s saves, h shows the help
_on_key_press ==
    /\ win.exists
    /\ \E event \in KeyEvents :
         LET keysym == event.keysym
             ctrl == event.ctrl
             step == IF event.shift THEN 500 ELSE 100
         IN
         CASE keysym = "Tab" ->
                /\ win' = [win EXCEPT !.adjust_mode = next_mode(@)]
                /\ UNCHANGED <<figs, store, draws, used, reported, offPreview>>
           [] keysym \in Arrows ->
                /\ draws < MaxDraws
                /\ _update_display(
                       [win EXCEPT !.adjustments =
                            moved(@, win.adjust_mode, arrow_direction[keysym], step)])
                /\ UNCHANGED <<store, reported, offPreview>>
           [] keysym = "r" /\ ctrl -> draws < MaxDraws /\ _reset_all
           [] keysym = "r" /\ ~ctrl -> draws < MaxDraws /\ _reset_current
           [] keysym = "s" -> \E io \in IoOutcomes : _save_positions(io)
           [] keysym = "h" -> UNCHANGED vars

\* the window-manager close request (WM_DELETE_WINDOW)
_on_closing ==
    /\ win.exists
    /\ win' = [win EXCEPT !.view_lock_active = FALSE, !.exists = FALSE]
    /\ figs' = {f \in figs : f.id # win.fig}
    /\ UNCHANGED <<store, draws, used, reported, offPreview>>

\* the window's Close button: command=self.window.destroy
close_button ==
    /\ win.exists
    /\ win' = [win EXCEPT !.exists = FALSE]
    /\ UNCHANGED <<figs, store, draws, used, reported, offPreview>>

\* export_grid (gui_app.py): the stored offsets are loaded and passed to
\* make_grid_map(preview=False), which closes its figure on the normal path
export_grid ==
    /\ draws < MaxDraws
    /\ draws' = draws + 1
    /\ \E ok \in BOOLEAN :
         IF ok THEN used' = [by |-> "export", n |-> draws + 1, v |-> load_adjustments]
         ELSE UNCHANGED used
    /\ UNCHANGED <<figs, store, win, reported, offPreview>>

(***************************************************************************)
(* Decoration anchors of a grid composition (plotting.py).  Lengths in     *)
(* inches are in hundredths; fractions of the figure or of an axes are in  *)
(* ten-thousandths (rounded down where a division is not exact).           *)
(***************************************************************************)
Unit == 100 * 100
\* max(lo, min(hi, x)), and a layout without it
NoClamp(lo, hi, x) == x
Clamp(lo, hi, x) == Max({lo, Min({hi, x})})

\* the bottom / top margin of the GridSpec, lines 981-1012
margin_bottom_inch(fig_h, use_shared_cbar, shared_cbar_loc, caption) ==
    LET m == IF use_shared_cbar /\ shared_cbar_loc = "bottom" THEN (fig_h * 15) \div 100
             ELSE 15
    IN  IF caption THEN Max({m, 50}) ELSE m
gs_bottom(fig_h, use_shared_cbar, shared_cbar_loc, caption) ==
    Clamp(100, 2000,
          (margin_bottom_inch(fig_h, use_shared_cbar, shared_cbar_loc, caption) * Unit)
              \div fig_h)
margin_top_inch(fig_h, use_shared_cbar, shared_cbar_loc) ==
    IF use_shared_cbar /\ shared_cbar_loc = "top" THEN (fig_h * 12) \div 100 ELSE 20
gs_top(fig_h, use_shared_cbar, shared_cbar_loc) ==
    Clamp(8000, 9900,
          Unit - (margin_top_inch(fig_h, use_shared_cbar, shared_cbar_loc) * Unit) \div fig_h)
margin_left_inch(fig_w, use_shared_cbar, shared_cbar_loc) ==
    IF use_shared_cbar /\ shared_cbar_loc = "left" THEN (fig_w * 15) \div 100 ELSE 10
gs_left(fig_w, use_shared_cbar, shared_cbar_loc) ==
    Clamp(100, 2000,
          (margin_left_inch(fig_w, use_shared_cbar, shared_cbar_loc) * Unit) \div fig_w)
margin_right_inch(fig_w, use_shared_cbar, shared_cbar_loc) ==
    IF use_shared_cbar /\ shared_cbar_loc = "right" THEN (fig_w * 15) \div 100 ELSE 10
gs_right(fig_w, use_shared_cbar, shared_cbar_loc) ==
    Clamp(8000, 9900,
          Unit - (margin_right_inch(fig_w, use_shared_cbar, shared_cbar_loc) * Unit) \div fig_w)

\* position_adjustments.get(key, 0.0)
offset(position_adjustments, key) ==
    IF key \in DOMAIN position_adjustments THEN position_adjustments[key] ELSE 0

Point(x, y) == [x |-> x, y |-> y]

\* the lower left corner (x0, y0) of the scale bar in axes fractions: the
\* driver adds the offsets to the pads, the renderer puts the bar at
\* x0 = x_in, y0 = -y_out
scale_anchor(a, adj) ==
    LET adjusted_scale_pad_x == a.scale_pad_x + offset(adj, "scale_offset_x")
        adjusted_scale_pad_y == a.scale_pad_y + offset(adj, "scale_offset_y")
        x_in == adjusted_scale_pad_x
        y_out == adjusted_scale_pad_y
    IN  Point(x_in, 0 - y_out)

\* the foot (x, y) of the north indicator in axes fractions: the dispatcher
\* folds both pads into one, the renderer measures it from the right and
\* from the bottom edge
north_anchor(a, adj) ==
    LET adjusted_north_pad_x == a.north_pad_x + offset(adj, "north_offset_x")
        adjusted_north_pad_y == a.north_pad_y + offset(adj, "north_offset_y")
        pad_frac == Max({adjusted_north_pad_x, adjusted_north_pad_y})
    IN  Point(Unit - pad_frac, pad_frac)

cbar_height == 150
\* the lower left corner of the shared colorbar's axes in figure fractions
cbar_anchor(a, adj) ==
    LET shrink_value == Clamp(3000, Unit, a.shared_cbar_shrink * 100)
        bottom == gs_bottom(a.fig_h, TRUE, a.shared_cbar_loc, a.caption)
        top == gs_top(a.fig_h, TRUE, a.shared_cbar_loc)
        left == gs_left(a.fig_w, TRUE, a.shared_cbar_loc)
        right == gs_right(a.fig_w, TRUE, a.shared_cbar_loc)
    IN  CASE a.shared_cbar_loc = "bottom" ->
               LET cbar_bottom == IF a.caption THEN (bottom * 6) \div 10
                                  ELSE (bottom - cbar_height) \div 2
               IN  Point((Unit - shrink_value) \div 2 + offset(adj, "cbar_offset_x"),
                         Max({100, cbar_bottom + offset(adj, "cbar_offset_y")}))
          [] a.shared_cbar_loc = "top" ->
               Point((Unit - shrink_value) \div 2,
                     Min({9800, top + (Unit - top - cbar_height) \div 2}))
          \* fig.colorbar(ax=axes, location=..., fraction=..., shrink=...):
          \* matplotlib takes the space from the side of the panels' box
          [] a.shared_cbar_loc = "right" ->
               Point(left + ((right - left) * (Unit - a.shared_cbar_frac)) \div Unit,
                     bottom + ((top - bottom) * (Unit - shrink_value)) \div (2 * Unit))
          [] a.shared_cbar_loc = "left" ->
               Point(left,
                     bottom + ((top - bottom) * (Unit - shrink_value)) \div (2 * Unit))

\* the anchors of one composition
anchors(a, adj) ==
    [scale |-> scale_anchor(a, adj), north |-> north_anchor(a, adj),
     cbar |-> cbar_anchor(a, adj)]

\* arguments of make_grid_map that the anchors depend on (GUI defaults for
\* the pads) and the offsets a store can hold
DecoArgs ==
    [shared_cbar_loc : {"bottom", "top", "left", "right"}, caption : BOOLEAN,
     fig_w : {1000}, fig_h : {500, 1000}, shared_cbar_shrink : {75},
     shared_cbar_frac : {1000},
     scale_pad_x : {800}, scale_pad_y : {1200}, north_pad_x : {800}, north_pad_y : {800}]
OffsetValues == {-500, 0, 100}
OffsetInputs == [AdjKeys -> OffsetValues]

\* the move the preview window reported before the last redraw
Move(mode, direction) == [mode |-> mode, direction |-> direction]
NoMove == Move("none", "none")
NoDeco ==
    LET a == CHOOSE x \in DecoArgs : TRUE IN
    [drawn |-> FALSE, args |-> a, adj |-> DEFAULT_ADJUSTMENTS,
     at |-> anchors(a, DEFAULT_ADJUSTMENTS), move |-> NoMove]
PosIdle == deco = NoDeco

\* one grid composition with shared colorbar draws its decorations
draw_decorations ==
    /\ ~deco.drawn
    /\ \E a \in DecoArgs, adj \in OffsetInputs :
         deco' = [drawn |-> TRUE, args |-> a, adj |-> adj, at |-> anchors(a, adj),
                  move |-> NoMove]
    /\ UNCHANGED <<rangeVars, gridVars, paletteVars, previewVars, helperVars>>

\* a direction move in the preview window of that composition:
\* _move_direction changes the entry and reports the direction, the redraw
\* callback composes the grid again with the window's offsets
redraw_with_adjustments ==
    /\ deco.drawn /\ deco.move = NoMove
    /\ \E mode \in ModeSet, direction \in Directions, step_var \in StepNames :
         LET position_adjustments == moved(deco.adj, mode, direction, step_map[step_var])
         IN  deco' = [deco EXCEPT !.adj = position_adjustments,
                                  !.at = anchors(deco.args, position_adjustments),
                                  !.move = Move(mode, direction)]
    /\ UNCHANGED <<rangeVars, gridVars, paletteVars, previewVars, helperVars>>

(***************************************************************************)
(* Helper functions, each checked on its own: calc holds the last call.    *)
(***************************************************************************)
\* a call that has returned, and one that has been made and not yet run
Calc(fn, args, result) == [fn |-> fn, args |-> args, done |-> TRUE, result |-> result]
Called(fn, args) == [fn |-> fn, args |-> args, done |-> FALSE, result |-> << >>]
NoCalc == Calc("none", << >>, << >>)

(***************************************************************************)
(* View lock of the preview window (interactive_preview.py): the checkbox, *)
(* the callback check_and_lock scheduled with window.after(100, ...), and  *)
(* the view of the axes (0 is the initial view _lock_view restores).       *)
(* relocks counts the calls of _lock_view, modulo RelockPhases.            *)
(***************************************************************************)
MaxZoom == 4
RelockPhases == 4
Lock(exists, active, scheduled, view, relocks) ==
    [exists |-> exists, view_lock_active |-> active, scheduled |-> scheduled,
     view |-> view, relocks |-> relocks]
NoLock == Lock(FALSE, FALSE, FALSE, 0, 0)
HelperIdle == calc = NoCalc /\ lock = NoLock

\* _lock_view: the initial limits are set on every axes
_lock_view(l) == [l EXCEPT !.view = 0, !.relocks = (l.relocks + 1) % RelockPhases]

\* the callback of _start_view_lock_timer runs: it locks and schedules
\* itself again only while the lock is on and the window exists
check_and_lock_once(l) ==
    IF l.view_lock_active /\ l.exists THEN [_lock_view(l) EXCEPT !.scheduled = TRUE]
    ELSE [l EXCEPT !.scheduled = FALSE]
check_and_lock ==
    /\ lock.scheduled
    /\ lock' = check_and_lock_once(lock)
    /\ UNCHANGED offLock

\* the checkbox is clicked: view_lock_active = view_lock_var.get(), and
\* _lock_view when it is now on
_toggle_view_lock ==
    /\ lock.exists
    /\ LET l == [lock EXCEPT !.view_lock_active = ~lock.view_lock_active] IN
       lock' = IF l.view_lock_active THEN _lock_view(l) ELSE l
    /\ UNCHANGED offLock

\* the view of an axes changes (a zoom or pan that got through)
view_changes ==
    /\ lock.exists /\ lock.view < MaxZoom
    /\ lock' = [lock EXCEPT !.view = lock.view + 1]
    /\ UNCHANGED offLock

\* _on_closing: view_lock_active = False, the window is destroyed
close_locked_window ==
    /\ lock.exists
    /\ lock' = [lock EXCEPT !.exists = FALSE, !.view_lock_active = FALSE]
    /\ UNCHANGED offLock

(***************************************************************************)
(* Colorbar ticks (plotting.py): np.linspace over the colorbar's range,    *)
(* then the first and the last tick are overwritten with the range's ends. *)
(* Values are in hundredths.                                               *)
(***************************************************************************)
MaxTicks == 7
default_ticks == 6

\* np.linspace(start, stop, num): start + i * step for i = 0 .. num - 1, the
\* products rounded down to the grid of hundredths
linspace(start, stop, num) ==
    [i \in 1..num |->
        IF num = 1 THEN start ELSE start + ((i - 1) * (stop - start)) \div (num - 1)]

\* ticks[0], ticks[-1] = vmin, vmax: the first assignment, then the second
force_ends(tks, vmin, vmax) ==
    LET first == [tks EXCEPT ![1] = vmin] IN [first EXCEPT ![Len(tks)] = vmax]

\* int(per_cbar_ticks) if per_cbar_ticks else 6
fixed_tick_count(requested) == default_ticks
tick_count(requested) == IF requested # 0 THEN requested ELSE default_ticks

\* the tick list of a colorbar with N ticks
ticks(vmin, vmax, N) == force_ends(linspace(vmin, vmax, N), vmin, vmax)

\* the three places a colorbar gets its ticks; the single map takes no tick
\* count and always asks for six
single_cbar_ticks(vmin, vmax) == ticks(vmin, vmax, default_ticks)
shared_cbar_ticks(global_min, global_max, requested) ==
    ticks(global_min, global_max, tick_count(requested))
per_cbar_ticks(lo, hi, requested) == ticks(lo, hi, tick_count(requested))

TickValues == {-150, 0, 1, 7, 100, 333}
TickRanges == {r \in TickValues \X TickValues : r[1] < r[2]}
\* the tick counts a caller can ask for; 0 stands for None
TickRequests == 0..MaxTicks

TickArgs(site, r, requested) == [site |-> site, vmin |-> r[1], vmax |-> r[2],
                                 requested |-> requested]
single_colorbar ==
    \E r \in TickRanges :
      /\ calc' = Calc("ticks", TickArgs("single", r, default_ticks),
                      single_cbar_ticks(r[1], r[2]))
      /\ UNCHANGED offHelper
shared_cbar ==
    \E r \in TickRanges, requested \in TickRequests :
      /\ calc' = Calc("ticks", TickArgs("shared", r, requested),
                      shared_cbar_ticks(r[1], r[2], requested))
      /\ UNCHANGED offHelper
per_panel_cbar ==
    \E r \in TickRanges, requested \in TickRequests :
      /\ calc' = Calc("ticks", TickArgs("panel", r, requested),
                      per_cbar_ticks(r[1], r[2], requested))
      /\ UNCHANGED offHelper

(***************************************************************************)
(* Raster ingest: read_project_clip (plotting.py, geo_io.py).  The raster  *)
(* comes out of rasterio's reproject as an array of cells, each NaN or a   *)
(* value (in hundredths); geometry_mask gives the cells inside the         *)
(* boundary.                                                               *)
(***************************************************************************)
MaxCells == 3
Cells == 1..MaxCells
CellValues == {NaN, Fl(0), Fl(-300), Fl(700)}
Years == {2000, 2001, 2004}

\* span = max(1, int(year_end) - int(year_start) + 1)
span(year_start, year_end) == Max({1, year_end - year_start + 1})

\* float division, rounded toward zero on the grid of hundredths; NaN / x = NaN
fdiv(x, d) ==
    IF ~isfinite(x) THEN NaN
    ELSE IF Num(x) < 0 THEN Fl(-((-Num(x)) \div d)) ELSE Fl(Num(x) \div d)

\* arr = np.where(mask, arr, np.nan)
no_clip(arr, mask) == arr
clip(arr, mask) == [c \in DOMAIN arr |-> IF c \in mask THEN arr[c] ELSE NaN]

\* if as_yearly: arr = arr / float(span)
annualize(arr, as_yearly, n) == IF as_yearly THEN [c \in DOMAIN arr |-> fdiv(arr[c], n)] ELSE arr

\* the array read_project_clip returns
read_project_clip_arr(arr, mask, year_start, year_end, as_yearly) ==
    annualize(clip(arr, mask), as_yearly, span(year_start, year_end))

\* the rasters, boundaries and year settings a caller can pass
IngestInputs ==
    [arr : [Cells -> CellValues], mask : SUBSET Cells, year_start : Years,
     year_end : Years, as_yearly : BOOLEAN]

\* one raster is read, reprojected and clipped
ingest_raster ==
    /\ calc.fn = "read_project_clip" /\ ~calc.done
    /\ LET a == calc.args IN
       calc' = Calc("read_project_clip", a,
                    read_project_clip_arr(a.arr, a.mask, a.year_start, a.year_end,
                                          a.as_yearly))
    /\ UNCHANGED offHelper

(***************************************************************************)
(* Path resolution: resolve_path (plotting.py, geo_io.py).  Files are      *)
(* numbered in the order sorted() puts their names; a pattern is given by  *)
(* whether it holds a wildcard character and by the names it denotes (one *)
(* name for a path without wildcard).                                      *)
(***************************************************************************)
MaxFiles == 3
FileNames == 1..MaxFiles
abspath(name) == "/data/f" \o ToString(name) \o ".tif"

Pattern(wild, names) == [wild |-> wild, names |-> names]
Patterns ==
    {Pattern(TRUE, names) : names \in SUBSET FileNames \ {{}}}
    \cup {Pattern(FALSE, {name}) : name \in FileNames}

\* sorted(glob.glob(path_pattern)): the existing files the pattern matches
glob(path_pattern, existing) == path_pattern.names \cap existing

Returned(path) == [raised |-> "", path |-> path]
Raised(error) == [raised |-> error, path |-> ""]

resolve_path(path_pattern, existing) ==
    IF path_pattern.wild
    THEN LET matches == glob(path_pattern, existing) IN
         IF matches = {} THEN Raised("FileNotFoundError")
         ELSE Returned(abspath(Min(matches)))
    ELSE IF path_pattern.names \cap existing = {} THEN Raised("FileNotFoundError")
         ELSE Returned(abspath(Min(path_pattern.names)))

PathInputs == [path_pattern : Patterns, existing : SUBSET FileNames]

\* a caller resolves a path pattern
resolve_path_call ==
    /\ calc.fn = "resolve_path" /\ ~calc.done
    /\ calc' = Calc("resolve_path", calc.args,
                    resolve_path(calc.args.path_pattern, calc.args.existing))
    /\ UNCHANGED offHelper

(***************************************************************************)
(* Reading the offset store: the two consumers of load_adjustments, on a   *)
(* store file that may come from anywhere (absent, not parsable, or a dict *)
(* holding any of the six keys).                                           *)
(***************************************************************************)
StoreValues == {0, 500}
StoreFiles ==
    {NoFile, ADJUSTMENT_FILE("corrupt", DEFAULT_ADJUSTMENTS)}
    \cup {ADJUSTMENT_FILE("ok", [key \in keys |-> v]) :
              keys \in SUBSET AdjKeys, v \in StoreValues}
Consumers == {"make_grid_map", "InteractivePreviewWindow"}

Offsets(raised, v) == [raised |-> raised, v |-> v]

\* position_adjustments.get(key, 0.0) for the six keys
get_offsets(position_adjustments) ==
    [key \in AdjKeys |->
        IF key \in DOMAIN position_adjustments THEN position_adjustments[key] ELSE 0]

\* _make_grid_map_impl called without position_adjustments
grid_loads_offsets ==
    /\ calc.fn = "make_grid_map" /\ ~calc.done
    /\ calc' = Calc(calc.fn, calc.args, Offsets("", get_offsets(load_adjustments)))
    /\ UNCHANGED offHelper

\* InteractivePreviewWindow.__init__: self.adjustments = load_adjustments(),
\* then _create_control_panel formats self.adjustments[key] for the six keys
window_loads_offsets ==
    /\ calc.fn = "InteractivePreviewWindow" /\ ~calc.done
    /\ LET adjustments == load_adjustments IN
       calc' = Calc(calc.fn, calc.args,
                    IF AdjKeys \subseteq DOMAIN adjustments THEN Offsets("", adjustments)
                    ELSE Offsets("KeyError", adjustments))
    /\ UNCHANGED offHelper

(***************************************************************************)
(* GridSpec margins of a grid composition (plotting.py), from the margin   *)
(* operators above.  Canvas sizes are in hundredths of an inch.            *)
(***************************************************************************)
MaxSizes == 5
\* canvas widths and heights from 0.2 inch up
FigSizes == {20 * n * n * n : n \in 1..MaxSizes}

LayoutInputs ==
    [fig_w : FigSizes, fig_h : FigSizes, use_shared_cbar : BOOLEAN,
     shared_cbar_loc : {"bottom", "top", "left", "right"}, caption : BOOLEAN]

\* the left, right, top and bottom handed to GridSpec
grid_spec(a) ==
    [left |-> gs_left(a.fig_w, a.use_shared_cbar, a.shared_cbar_loc),
     right |-> gs_right(a.fig_w, a.use_shared_cbar, a.shared_cbar_loc),
     top |-> gs_top(a.fig_h, a.use_shared_cbar, a.shared_cbar_loc),
     bottom |-> gs_bottom(a.fig_h, a.use_shared_cbar, a.shared_cbar_loc, a.caption)]

\* the composition lays out its grid
lay_out_grid ==
    /\ calc.fn = "GridSpec" /\ ~calc.done
    /\ calc' = Calc("GridSpec", calc.args, grid_spec(calc.args))
    /\ UNCHANGED offHelper

(***************************************************************************)
(* Scale-bar length: nice_length_km (plotting.py, geo_io.py) and the       *)
(* resolution of km_length at the head of each scale-bar style.  Widths    *)
(* are in metres; inside nice_length_km lengths are in metres too, so     *)
(* that the magnitudes below one kilometre are integers.                   *)
(***************************************************************************)
MaxDecades == 4
\* visible map widths from a hundred metres up
WidthDigits == {10, 24, 25, 48, 49, 96, 97}
Widths == {m * 10^j : m \in WidthDigits, j \in 1..MaxDecades}
\* km_length as passed: None, or a number
KmLength(none, km) == [none |-> none, km |-> km]
KmLengths == {KmLength(TRUE, 0)} \cup {KmLength(FALSE, km) : km \in {-1, 0, 30, 100}}

\* target = (width_m / 4.8) / 1000.0, and length >= target, for a length in
\* metres: length / 1000 >= width_m / 4800
at_least_target(length_m, width_m) == length_m * 48 >= width_m * 10

\* mag = 10 ** np.floor(np.log10(target)): the largest power of ten that is
\* not above the target
RECURSIVE magnitude(_, _)
magnitude(p, width_m) ==
    IF at_least_target(10 * p, width_m) /\ 10 * p * 48 # width_m * 10 THEN p
    ELSE magnitude(10 * p, width_m)

\* the first of 1, 2, 5, 10 times mag that reaches the target
candidate(mag, width_m) ==
    LET reaching == {k \in {1, 2, 5, 10} : at_least_target(k * mag, width_m)}
    IN  Min(reaching) * mag

\* int(cand), cand in kilometres
nice_length_km(width_m) == candidate(magnitude(1, width_m), width_m) \div 1000

\* if km_length is None or km_length <= 0: km_length = nice_length_km(width_m)
resolved_km_length(km_length, width_m) ==
    IF km_length.none \/ km_length.km <= 0 THEN nice_length_km(width_m)
    ELSE km_length.km

ScaleInputs == [km_length : KmLengths, width_m : Widths]

\* a scale bar resolves its length
resolve_scale_length ==
    /\ calc.fn = "draw_scale_bar_axes" /\ ~calc.done
    /\ calc' = Calc(calc.fn, calc.args,
                    resolved_km_length(calc.args.km_length, calc.args.width_m))
    /\ UNCHANGED offHelper

(***************************************************************************)
(* Panel spacing: auto_layout_spacing and optimize_layout (plotting.py).   *)
(* wspace and hspace are in thousandths of a panel's width / height.       *)
(***************************************************************************)
MaxGrid == 5
GridCounts == 1..MaxGrid
CbarLocs == {"bottom", "top", "left", "right"}

\* the ladder both functions use for the horizontal spacing
growing_wspace(ncols) == 20 * ncols
column_wspace(ncols) ==
    IF ncols >= 4 THEN 20 ELSE IF ncols = 3 THEN 50 ELSE IF ncols = 2 THEN 80 ELSE 120

auto_layout_spacing(nrows, ncols, use_shared_cbar, shared_cbar_loc) ==
    LET wspace == column_wspace(ncols)
        hspace == IF nrows >= 3 THEN 120 ELSE IF nrows = 2 THEN 180 ELSE 220
    IN  [wspace |-> IF use_shared_cbar /\ shared_cbar_loc \in {"right", "left"}
                    THEN Max({wspace, 50}) ELSE wspace,
         hspace |-> hspace]

\* the 'wspace' and 'hspace' entries of the dict optimize_layout returns
optimize_layout(nrows, ncols, use_shared_cbar, shared_cbar_loc) ==
    [wspace |-> column_wspace(ncols),
     hspace |-> IF nrows >= 3 THEN 150 ELSE IF nrows = 2 THEN 200 ELSE 250]

SpacingArgs ==
    [nrows : GridCounts, ncols : GridCounts, use_shared_cbar : BOOLEAN,
     shared_cbar_loc : CbarLocs]

call_auto_layout_spacing ==
    /\ calc.fn = "auto_layout_spacing" /\ ~calc.done
    /\ LET a == calc.args IN
       calc' = Calc(calc.fn, a, auto_layout_spacing(a.nrows, a.ncols, a.use_shared_cbar,
                                                    a.shared_cbar_loc))
    /\ UNCHANGED offHelper
call_optimize_layout ==
    /\ calc.fn = "optimize_layout" /\ ~calc.done
    /\ LET a == calc.args IN
       calc' = Calc(calc.fn, a, optimize_layout(a.nrows, a.ncols, a.use_shared_cbar,
                                                a.shared_cbar_loc))
    /\ UNCHANGED offHelper

(***************************************************************************)
(* Custom palettes: LinearSegmentedColormap.from_list(key, colors, N=256)  *)
(* as resolve_cmap calls it (colormaps.py).  A colour is one channel level *)
(* 0..255; the table holds levels times 255, so that the interpolation     *)
(* between two breakpoints is exact.                                       *)
(***************************************************************************)
MaxColors == 3
LutSize == 256
Levels == {0, 64, 128, 255}
ColorLists == UNION {[1..n -> Levels] : n \in 2..MaxColors}

\* stop j of N lies at j / (N - 1); with k segments it falls into segment
\* (j * k) div (N - 1), at (j * k) mod (N - 1) parts of N - 1 into it
segment(j, k) == IF j = LutSize - 1 THEN k ELSE (j * k) \div (LutSize - 1) + 1
into_segment(j, k) == IF j = LutSize - 1 THEN LutSize - 1 ELSE (j * k) % (LutSize - 1)

\* the table from_list builds: linear between neighbouring breakpoints
flat_table(colors) == [j \in 0..(LutSize - 1) |-> (LutSize - 1) * colors[1]]
from_list(colors) ==
    LET k == Len(colors) - 1 IN
    [j \in 0..(LutSize - 1) |->
        LET i == segment(j, k)
            t == into_segment(j, k)
        IN  (LutSize - 1) * colors[i] + (colors[i + 1] - colors[i]) * t]

\* Colormap.__call__ on a fraction given in parts of den: int(x * N), and
\* N - 1 for x = 1.0
lut_index(num, den) == IF num = den THEN LutSize - 1 ELSE (num * LutSize) \div den

\* a palette is built from a colour list
build_custom_cmap ==
    /\ calc.fn = "from_list" /\ ~calc.done
    /\ calc' = Calc("from_list", calc.args, from_list(calc.args))
    /\ UNCHANGED offHelper

(***************************************************************************)
(* The ruler scale bar (plotting.py, draw_scale_bar_ruler): one label per  *)
(* tick, lengths in whole kilometres.                                      *)
(***************************************************************************)
MaxKm == 20
MaxRulerTicks == 6
\* a tick label: the number printed, and whether the unit follows it
Label(value, unit) == [value |-> value, unit |-> unit]
\* value = int(km_length * frac) with frac = i / (num_ticks - 1), 0 for a
\* single tick; int() drops the fraction of a positive number
tick_value(km_length, i, num_ticks) ==
    IF num_ticks > 1 THEN (km_length * i) \div (num_ticks - 1) ELSE 0
\* the labels of ticks 0 .. num_ticks - 1: the last one carries the unit
draw_scale_bar_ruler(km_length, num_ticks) ==
    [i \in 0..(num_ticks - 1) |->
        Label(tick_value(km_length, i, num_ticks), i = num_ticks - 1)]
RulerInputs == [km_length : 1..MaxKm, num_ticks : 1..MaxRulerTicks]

\* a ruler scale bar is drawn
draw_ruler ==
    /\ calc.fn = "draw_scale_bar_ruler" /\ ~calc.done
    /\ calc' = Calc(calc.fn, calc.args,
                    draw_scale_bar_ruler(calc.args.km_length, calc.args.num_ticks))
    /\ UNCHANGED offHelper

(***************************************************************************)
(* The single map's scale bar, from the form to the renderer: the keyword  *)
(* arguments of the two GUI callers, the alias and filter steps of         *)
(* make_single_map, and the defaults of _make_single_map_impl.  Keyword    *)
(* arguments are functions from parameter names to values.                 *)
(***************************************************************************)
\* the form of the single-map tab: length entry (blank or a number), x and
\* y padding entries, text size entry
Form(length, x, y) == [length |-> length, x |-> x, y |-> y, size |-> 9]
Forms ==
    {Form(length, x, y) : length \in {KmLength(TRUE, 0), KmLength(FALSE, 30),
                                      KmLength(FALSE, 100)},
                          x \in {500, 800}, y \in {1200, 2000}}
\* the scale-bar keywords preview_single passes
preview_single_kwargs(form) ==
    ("scale_km" :> form.length) @@ ("scale_txt_size" :> form.size)
    @@ ("scale_x_in" :> form.x) @@ ("scale_y_out" :> form.y)
\* the scale-bar keywords export_single passes
export_single_kwargs(form) ==
    ("scale_length" :> form.length) @@ ("scale_txt_size" :> form.size)
    @@ ("scale_anchor" :> "SW")
    @@ ("scale_pad_x" :> form.x) @@ ("scale_pad_y" :> form.y)

\* kwargs with key old renamed to new when new is not given
renamed(kwargs, old, new) ==
    IF old \in DOMAIN kwargs /\ new \notin DOMAIN kwargs
    THEN [k \in (DOMAIN kwargs \ {old}) \cup {new} |->
             IF k = new THEN kwargs[old] ELSE kwargs[k]]
    ELSE kwargs
\* the only scale-bar alias of the single map
_alias_kwargs_for_single(kwargs) == renamed(kwargs, "scale_text_size", "scale_txt_size")
\* the scale-bar parameters in the signature of _make_single_map_impl
impl_parameters == {"scale_txt_size", "scale_x_in", "scale_y_out", "scale_km"}
_filter_kwargs(allow, kwargs) == [k \in DOMAIN kwargs \cap allow |-> kwargs[k]]
\* a keyword parameter with its default
parameter(kwargs, name, default) == IF name \in DOMAIN kwargs THEN kwargs[name] ELSE default
\* what draw_scale_bar_axes is called with and draws: the resolved length
\* and the anchor (x0, y0) = (x_in, -y_out)
Bar(km_length, at) == [km_length |-> km_length, at |-> at]
_make_single_map_impl(kwargs, width_m) ==
    LET scale_km == parameter(kwargs, "scale_km", KmLength(TRUE, 0))
        scale_x_in == parameter(kwargs, "scale_x_in", 800)
        scale_y_out == parameter(kwargs, "scale_y_out", 1200)
    IN  Bar(resolved_km_length(scale_km, width_m), Point(scale_x_in, 0 - scale_y_out))
make_single_map(kwargs, width_m) ==
    _make_single_map_impl(
        _filter_kwargs(impl_parameters, _alias_kwargs_for_single(kwargs)), width_m)
SingleInputs == [form : Forms, width_m : Widths]

\* the two buttons of the single-map tab
preview_single ==
    /\ calc.fn = "preview_single" /\ ~calc.done
    /\ calc' = Calc(calc.fn, calc.args,
                    make_single_map(preview_single_kwargs(calc.args.form),
                                    calc.args.width_m))
    /\ UNCHANGED offHelper
export_single ==
    /\ calc.fn = "export_single" /\ ~calc.done
    /\ calc' = Calc(calc.fn, calc.args,
                    make_single_map(export_single_kwargs(calc.args.form),
                                    calc.args.width_m))
    /\ UNCHANGED offHelper

(***************************************************************************)
(* Palette and limits of the panel images and of the shared colorbar of a  *)
(* grid composition (plotting.py).  A palette is named by its key, the     *)
(* limits by where they were computed: over all panels, or on panel i.     *)
(***************************************************************************)
CmapKeys == {"viridis", "plasma"}
\* the panel_cmaps argument: None, or a list of keys (shorter, as long as or
\* longer than the list of panels)
PanelCmaps(none, keys) == [none |-> none, keys |-> keys]
PanelCmapLists ==
    {PanelCmaps(TRUE, << >>)}
    \cup {PanelCmaps(FALSE, keys) :
            keys \in UNION {[1..len -> CmapKeys] : len \in 0..(MaxPanels + 1)}}
Mapped(cmap, limits) == [cmap |-> cmap, limits |-> limits]
global_limits == [of |-> "all", panel |-> 0]
limits_i(i) == [of |-> "panel", panel |-> i]
\* panel_cmaps[i] if (panel_cmaps and i < len(panel_cmaps)) else cmap_key,
\* for the i-th panel counted from 1
this_cmap_key(a, i) ==
    IF ~a.panel_cmaps.none /\ Len(a.panel_cmaps.keys) > 0 /\ i <= Len(a.panel_cmaps.keys)
    THEN a.panel_cmaps.keys[i] ELSE a.cmap_key
\* ax.imshow(arr, cmap=resolve_cmap(this_cmap_key), vmin=..., vmax=...)
imshow(a, i) ==
    Mapped(this_cmap_key(a, i), IF a.use_shared_cbar THEN global_limits ELSE limits_i(i))
\* ScalarMappable(norm=Normalize(global_vmin, global_vmax), cmap=resolve_cmap(cmap_key))
shared_mappable(a) == Mapped(a.cmap_key, global_limits)
\* the images of the panels, and the mappable of the shared colorbar (shared
\* mode only)
grid_images(a) ==
    [images |-> [i \in 1..a.n |-> imshow(a, i)],
     colorbar |-> IF a.use_shared_cbar THEN <<shared_mappable(a)>> ELSE << >>]
PanelArgs ==
    [n : 1..MaxPanels, cmap_key : CmapKeys, panel_cmaps : PanelCmapLists,
     use_shared_cbar : BOOLEAN]

\* the panels of one grid composition are drawn
draw_panels ==
    /\ calc.fn = "make_grid_map" /\ ~calc.done
    /\ calc' = Calc(calc.fn, calc.args, grid_images(calc.args))
    /\ UNCHANGED offHelper

(***************************************************************************)
(* The style dispatchers _draw_scale_bar and _draw_north_arrow             *)
(* (plotting.py) and the registry of custom renderers (custom_styles.py).  *)
(* Style names stand for the names of the style boxes: line, ruler,        *)
(* double, minimal and segmented for the scale bar; arrow, simple,         *)
(* compass, star, minimal_arrow and triangle for the north indicator.      *)
(* The result is the list of renderers invoked, in order.                  *)
(***************************************************************************)
ScaleStyles == {"line", "ruler", "double", "minimal", "segmented"}
NorthStyles == {"arrow", "simple", "compass", "star", "minimal_arrow", "triangle"}
\* a name registered by an imported style file, and a name nobody knows
CustomNames == {"mine", "ruler", "star"}
StyleNames == {"ruler", "segmented", "star", "triangle", "mine", "unknown"}

\* the built-in branch of _draw_scale_bar: the else branch is the segmented bar
scale_renderer(style) ==
    CASE style = "line"    -> "draw_scale_bar_line"
      [] style = "ruler"   -> "draw_scale_bar_ruler"
      [] style = "double"  -> "draw_scale_bar_double"
      [] style = "minimal" -> "draw_scale_bar_minimal"
      [] OTHER             -> "draw_scale_bar_axes"
\* the built-in branch of _draw_north_arrow: the else branch is the triangle
north_renderer(style) ==
    CASE style \in {"arrow", "simple"} -> "draw_north_arrow"
      [] style = "compass"             -> "draw_north_compass"
      [] style = "star"                -> "draw_north_star"
      [] style = "minimal_arrow"       -> "draw_north_simple_arrow"
      [] OTHER                         -> "draw_north"
\* get_custom_..._function(style): the registered function, or None
custom_func(a) == a.style \in a.registered
\* try: look the style up, call the custom renderer and return; except: pass;
\* then the built-in branch
dispatched(a, builtin) ==
    IF custom_func(a)
    THEN IF a.custom_raises THEN <<"custom_func", builtin>> ELSE <<"custom_func">>
    ELSE <<builtin>>
_draw_scale_bar(a) == dispatched(a, scale_renderer(a.style))
_draw_north_arrow(a) == dispatched(a, north_renderer(a.style))
StyleArgs ==
    [style : StyleNames, registered : SUBSET CustomNames, custom_raises : BOOLEAN]

\* one call of a dispatcher on a panel
draw_style ==
    /\ calc.fn \in {"_draw_scale_bar", "_draw_north_arrow"} /\ ~calc.done
    /\ calc' = Calc(calc.fn, calc.args,
                    IF calc.fn = "_draw_scale_bar" THEN _draw_scale_bar(calc.args)
                    ELSE _draw_north_arrow(calc.args))
    /\ UNCHANGED offHelper

\* every specification starts the parts it does not exercise at rest
RangeInit ==
    arrs \in PanelLists /\ rng = NoCall /\ GridIdle /\ PaletteIdle /\ PreviewIdle /\ PosIdle
    /\ HelperIdle
RangeNext == SharedMode \/ PerPanelMode \/ SingleMap
SpecRange == RangeInit /\ [][RangeNext]_vars

GridInit == GridIdle /\ RangeIdle /\ PaletteIdle /\ PreviewIdle /\ PosIdle /\ HelperIdle
GridNext ==
    \/ Start \/ read_border_gdf \/ read_project_clip \/ compute_range
    \/ create_figure \/ panel_vrange \/ panel_imshow \/ panel_colorbar
    \/ panel_scale_bar \/ panel_north_arrow \/ shared_colorbar \/ draw_caption
    \/ return_preview \/ safe_save_png \/ safe_save_pdf \/ close_figure
    \/ draw_raises \/ save_raises
SpecGrid == GridInit /\ [][GridNext]_vars

PaletteInit == PaletteIdle /\ RangeIdle /\ GridIdle /\ PreviewIdle /\ PosIdle /\ HelperIdle
PaletteNext == Resolve \/ register_imported_colormap
SpecPalette == PaletteInit /\ [][PaletteNext]_vars

PreviewInit == PreviewIdle /\ RangeIdle /\ GridIdle /\ PaletteIdle /\ PosIdle /\ HelperIdle
PreviewNext ==
    \/ preview_grid \/ _move_direction \/ _update_mode \/ save_button
    \/ reset_all_button \/ _on_key_press
    \/ _on_closing \/ close_button \/ export_grid
SpecPreview == PreviewInit /\ [][PreviewNext]_vars

PosInit == PosIdle /\ RangeIdle /\ GridIdle /\ PaletteIdle /\ PreviewIdle /\ HelperIdle
PosNext == draw_decorations \/ redraw_with_adjustments
SpecPos == PosInit /\ [][PosNext]_vars

IdleInit ==
    RangeIdle /\ GridIdle /\ PaletteIdle /\ PreviewIdle /\ PosIdle /\ HelperIdle
TicksNext == single_colorbar \/ shared_cbar \/ per_panel_cbar
SpecTicks == IdleInit /\ [][TicksNext]_vars


OthersIdle ==
    RangeIdle /\ GridIdle /\ PaletteIdle /\ PreviewIdle /\ PosIdle /\ lock = NoLock
IngestInit == OthersIdle /\ \E a \in IngestInputs : calc = Called("read_project_clip", a)
IngestNext == ingest_raster
SpecIngest == IngestInit /\ [][IngestNext]_vars


PathInit == OthersIdle /\ \E a \in PathInputs : calc = Called("resolve_path", a)
PathNext == resolve_path_call
SpecPath == PathInit /\ [][PathNext]_vars


StoreInit ==
    /\ RangeIdle /\ GridIdle /\ PaletteIdle /\ PosIdle
    /\ store \in StoreFiles /\ win = NoWindow /\ draws = 0
    /\ used = NoDraw /\ reported = DEFAULT_ADJUSTMENTS
    /\ \E consumer \in Consumers : calc = Called(consumer, << >>)
    /\ lock = NoLock
StoreNext == grid_loads_offsets \/ window_loads_offsets
SpecStore == StoreInit /\ [][StoreNext]_vars

\* the window has been built: view_lock_active = True (line 69) and
\* _start_view_lock_timer has run check_and_lock once (line 131)
LockInit ==
    /\ RangeIdle /\ GridIdle /\ PaletteIdle /\ PreviewIdle /\ PosIdle /\ calc = NoCalc
    /\ lock = Lock(TRUE, TRUE, TRUE, 0, 1)
LockNext == check_and_lock \/ _toggle_view_lock \/ view_changes \/ close_locked_window
\* Tk's event loop runs every callback scheduled with after()
SpecLock == LockInit /\ [][LockNext]_vars /\ WF_vars(check_and_lock)


LayoutInit == OthersIdle /\ \E a \in LayoutInputs : calc = Called("GridSpec", a)
LayoutNext == lay_out_grid
SpecLayout == LayoutInit /\ [][LayoutNext]_vars


ScaleInit == OthersIdle /\ \E a \in ScaleInputs : calc = Called("draw_scale_bar_axes", a)
ScaleNext == resolve_scale_length
SpecScale == ScaleInit /\ [][ScaleNext]_vars


SpacingInit ==
    OthersIdle /\ \E fn \in {"auto_layout_spacing", "optimize_layout"}, a \in SpacingArgs :
                      calc = Called(fn, a)
SpacingNext == call_auto_layout_spacing \/ call_optimize_layout
SpecSpacing == SpacingInit /\ [][SpacingNext]_vars


StopsInit == OthersIdle /\ \E colors \in ColorLists : calc = Called("from_list", colors)
StopsNext == build_custom_cmap
SpecStops == StopsInit /\ [][StopsNext]_vars

\* the preview window from its construction on: it shows the figure of the
\* first composition (figure 0, drawn with the loaded offsets), and draws
\* counts the redraws it asks for
WindowInit ==
    /\ RangeIdle /\ PaletteIdle /\ PosIdle /\ HelperIdle
    /\ pc = "idle" /\ call = NoArgs /\ calls = 0 /\ ingested = 0 /\ pi = 0
    /\ fig = 0 /\ normed = {} /\ images = << >> /\ cbars = << >>
    /\ scales = << >> /\ norths = << >> /\ files = {} /\ outcome = NoOutcome
    /\ drawn = << >>
    /\ figs = {[id |-> 0, preview |-> TRUE]}
    /\ store = NoFile /\ draws = 0 /\ used = NoDraw /\ reported = DEFAULT_ADJUSTMENTS
    /\ win = [exists |-> TRUE, fig |-> 0, adjustments |-> load_adjustments,
              adjust_mode |-> "colorbar", view_lock_active |-> TRUE]
WindowNext ==
    \/ _move_direction \/ _update_mode \/ _on_key_press \/ reset_all_button
    \/ save_button \/ _on_closing
SpecWindow == WindowInit /\ [][WindowNext]_vars

RulerInit == OthersIdle /\ \E a \in RulerInputs : calc = Called("draw_scale_bar_ruler", a)
RulerNext == draw_ruler
SpecRuler == RulerInit /\ [][RulerNext]_vars

SingleInit ==
    OthersIdle /\ \E fn \in {"preview_single", "export_single"}, a \in SingleInputs :
        calc = Called(fn, a)
SingleNext == preview_single \/ export_single
SpecSingle == SingleInit /\ [][SingleNext]_vars

PanelsInit == OthersIdle /\ \E a \in PanelArgs : calc = Called("make_grid_map", a)
PanelsNext == draw_panels
SpecPanels == PanelsInit /\ [][PanelsNext]_vars

StyleInit ==
    OthersIdle /\ \E fn \in {"_draw_scale_bar", "_draw_north_arrow"}, a \in StyleArgs :
        calc = Called(fn, a)
StyleNext == draw_style
SpecStyle == StyleInit /\ [][StyleNext]_vars

(***************************************************************************)
(* Claims about the normalization engine (checked under SpecRange)         *)
(***************************************************************************)
\* the finite cells of all panels together
AllFinite == UNION {FiniteValues(arrs[i]) : i \in DOMAIN arrs}
IsRange(r, lo, hi) == r = [vmin |-> lo, vmax |-> hi]
IsDefaultRange(r) == r = [vmin |-> Zero, vmax |-> One]
\* the upper end the shared mode asks for: the override, else the maximum
SharedUpper == IF rng.share_vmax.given THEN rng.share_vmax.v ELSE Fl(Max(AllFinite))

\* C1 as stated: in shared mode with at least one finite cell the range is
\* (minimum finite value of all panels, override if given else maximum
\* finite value of all panels).
C1_Original ==
    (rng.mode = "shared" /\ AllFinite # {})
        => IsRange(rng.g, Fl(Min(AllFinite)), SharedUpper)

\* C1 amended: in shared mode with at least one finite cell the range is
\* (minimum finite value of all panels, override if given else maximum
\* finite value of all panels) whenever that pair is finite with
\* vmin < vmax, and exactly (0, 1) otherwise; panels without finite cells
\* do not influence it.
C1_SharedRange ==
    (rng.mode = "shared" /\ AllFinite # {})
        => IF isfinite(SharedUpper) /\ Min(AllFinite) < Num(SharedUpper)
           THEN IsRange(rng.g, Fl(Min(AllFinite)), SharedUpper)
           ELSE IsDefaultRange(rng.g)

\* the scenario of the specification: panels with ranges (0,10) and (5,20),
\* no override, give (0,20)
C1_Witness ==
    /\ rng.mode = "shared" /\ ~rng.share_vmax.given
    /\ Len(arrs) = 2
    /\ FiniteValues(arrs[1]) = {0, 1000} /\ FiniteValues(arrs[2]) = {500, 2000}
    /\ IsRange(rng.g, Fl(0), Fl(2000))

\* the pair a mode computes before the degenerate-range rule is applied
RawRange(i) ==
    CASE rng.mode = "shared" ->
           [vmin |-> IF AllFinite = {} THEN NaN ELSE Fl(Min(AllFinite)),
            vmax |-> IF rng.share_vmax.given THEN rng.share_vmax.v
                     ELSE IF AllFinite = {} THEN NaN ELSE Fl(Max(AllFinite))]
      [] rng.mode = "panel" ->
           [vmin |-> nanmin(arrs[i]),
            vmax |-> IF rng.pct.given /\ rng.auto = Flag(FALSE)
                     THEN nanpercentile(arrs[i], rng.pct.v) ELSE nanmax(arrs[i])]
      [] OTHER ->
           [vmin |-> IF rng.uvmin.given THEN rng.uvmin.v ELSE nanmin(arrs[i]),
            vmax |-> IF rng.uvmax.given THEN rng.uvmax.v ELSE nanmax(arrs[i])]

ProperRange(r) ==
    isfinite(r.vmin) /\ isfinite(r.vmax) /\ Num(r.vmin) < Num(r.vmax)

\* C2: in every mode and for every input the (vmin, vmax) pair handed to the
\* image drawing and to tick generation is finite with vmin < vmax, and it
\* is either the computed pair or exactly (0, 1).
C2_ProperRange ==
    /\ \A i \in DOMAIN rng.ranges :
         /\ ProperRange(rng.ranges[i])
         /\ rng.ranges[i] = RawRange(i) \/ IsDefaultRange(rng.ranges[i])
    /\ rng.mode \in {"shared", "single"} =>
         /\ ProperRange(rng.g)
         /\ \A i \in DOMAIN rng.ranges : rng.ranges[i] = rng.g

\* a constant panel (all cells 5) and an all-sentinel panel, per-panel mode:
\* both get (0, 1)
C2_Witness ==
    /\ rng.mode = "panel" /\ Len(arrs) = 2
    /\ FiniteValues(arrs[1]) = {500} /\ \A c \in GridShape : isfinite(arrs[1][c])
    /\ FiniteValues(arrs[2]) = {}
    /\ IsDefaultRange(rng.ranges[1]) /\ IsDefaultRange(rng.ranges[2])

\* C10 as stated (its first half, read with the degenerate-range rule): in
\* per-panel mode through make_grid_map, whenever a percentile is given and
\* the panel has a finite cell, the panel's vmax is that percentile of its
\* finite cells and vmin its finite minimum (when that pair has vmin < vmax).
C10_Original ==
    \A i \in DOMAIN rng.ranges :
        (/\ rng.mode = "panel" /\ rng.pct.given
         /\ FiniteValues(arrs[i]) # {}
         /\ Num(nanmin(arrs[i])) < Num(nanpercentile(arrs[i], rng.pct.v)))
        => IsRange(rng.ranges[i], nanmin(arrs[i]), nanpercentile(arrs[i], rng.pct.v))

(***************************************************************************)
(* Claims about the composition driver (checked under SpecGrid)            *)
(***************************************************************************)
\* the decoration is on every panel once, in reading order
OnEveryPanel(seq) == seq = [j \in 1..call.n |-> j]
\* the decoration is drawn once, on the last panel in reading order
OnLastPanelOnly(seq) == seq = <<call.n>>
GridReturned == call.kind = "grid" /\ outcome.how = "returned"

FailedIngest == outcome.how = "raised" /\ outcome.at \in {"border", "ingest"}
NothingComposed ==
    /\ fig = 0 /\ \A f \in figs : f.id # calls
    /\ images = << >> /\ cbars = << >> /\ scales = << >> /\ norths = << >>
    /\ files = {}
CanvasExists == fig # 0

C5_Original ==
    pc = "idle" => \A f \in figs : f.preview

\* the output paths the call was given
requested_files ==
    {f \in {"png", "pdf"} : IF f = "png" THEN call.save_png ELSE call.save_pdf}
CallReturned == pc = "idle" /\ outcome.how = "returned"

\* C11 as stated: for the single map and the grid alike, a preview call
\* returns the figure handle, leaves the figure open and writes no file; an
\* export call writes every non-empty output path and returns no handle; no
\* call both returns a handle and writes a file.
C11_Original ==
    /\ CallReturned =>
          IF call.preview
          THEN /\ outcome.handle # 0 /\ outcome.handle = fig
               /\ \E f \in figs : f.id = fig
               /\ files = {}
          ELSE outcome.handle = 0 /\ files = requested_files
    /\ ~(outcome.handle # 0 /\ files # {})

\* positions of the draw log, by what was drawn there
DrawnAt(what) == {j \in DOMAIN drawn : drawn[j].what = what}
ImagesBefore(j) == {k \in DrawnAt("image") : k < j}
ColorbarsBefore(j) == {k \in DrawnAt("colorbar") : k < j}
ColorbarPanels == {drawn[j].panel : j \in DrawnAt("colorbar")}

\* C12: in a grid composition of n panels, shared mode draws no per-panel
\* colorbar and exactly one shared colorbar, after all n panel images and
\* with the range every panel image was drawn with; per-panel mode draws
\* exactly n colorbars, one per panel with that panel's range, and no shared
\* one; the caption is drawn after the colorbars.
C12_Colorbars ==
    call.kind = "grid" =>
        /\ \A j \in DrawnAt("colorbar") :
              /\ \A k \in ColorbarsBefore(j) : drawn[k].panel # drawn[j].panel
              /\ IF call.use_shared_cbar
                 THEN /\ drawn[j].panel = 0
                      /\ Cardinality(ImagesBefore(j)) = call.n
                      /\ \A k \in DrawnAt("image") : drawn[k].range = drawn[j].range
                 ELSE /\ drawn[j].panel \in 1..call.n
                      /\ drawn[j].range = range_i(drawn[j].panel)
                      /\ \E k \in ImagesBefore(j) :
                            /\ drawn[k].panel = drawn[j].panel
                            /\ drawn[k].range = drawn[j].range
        /\ \A j \in DrawnAt("caption") :
              /\ DrawnAt("colorbar") = ColorbarsBefore(j)
              /\ ColorbarPanels = IF call.use_shared_cbar THEN {0} ELSE 1..call.n
        /\ GridReturned =>
              /\ ColorbarPanels = IF call.use_shared_cbar THEN {0} ELSE 1..call.n
              /\ Cardinality(DrawnAt("colorbar")) =
                     IF call.use_shared_cbar THEN 1 ELSE call.n
              /\ Cardinality(DrawnAt("caption")) = IF call.caption THEN 1 ELSE 0

\* a finished grid of several panels with a shared colorbar and a caption
C12_Witness ==
    /\ GridReturned /\ call.n = MaxPanels /\ call.n > 1
    /\ call.use_shared_cbar /\ call.caption
    /\ Len(drawn) = call.n + 2
    /\ drawn[call.n + 1] = Drawing("colorbar", 0, global_range)
    /\ drawn[call.n + 2].what = "caption"

(***************************************************************************)
(* Claims on the palette registry, checked under SpecPalette.              *)
(***************************************************************************)
\* the palette registered under an imported key
registered_palette(key) == mpl_cmaps[CMAP_REGISTRY[key].v]
FirstResolveAfterRegistration ==
    /\ lastcmap.op = "resolve" /\ lastcmap.first
    /\ ~get_cmap_raises(CMAP_REGISTRY[lastcmap.key].v)

\* C7 (as stated): the first resolve(k) after palette k has been registered
\* returns the registered palette, also when resolve(k) was already called
\* before the registration.
C7_Original ==
    FirstResolveAfterRegistration => lastcmap.result = registered_palette(lastcmap.key)

\* a key that names neither a registry entry nor a matplotlib palette, and a
\* registry key whose entry names a palette matplotlib does not have
Unknown(key) == key \notin DOMAIN CMAP_REGISTRY /\ get_cmap_raises(key)
ConstructionFails(key) ==
    /\ key \in DOMAIN CMAP_REGISTRY
    /\ CMAP_REGISTRY[key].kind = "mpl" /\ get_cmap_raises(CMAP_REGISTRY[key].v)
\* every palette there is: matplotlib's, and the colour lists of the registry
Palettes ==
    {mpl_cmaps[n] : n \in DOMAIN mpl_cmaps}
    \cup {Palette("colors", k, 0) : k \in DOMAIN CMAP_REGISTRY}

\* C14: resolve returns a palette for every identifier, the empty string
\* included; an identifier that is neither a registry key nor a matplotlib
\* name gives the fixed default (viridis), and so does a registry entry
\* whose construction fails.
C14_Fallback ==
    lastcmap.op = "resolve" =>
        /\ lastcmap.result \in Palettes
        /\ Unknown(lastcmap.key) \/ ConstructionFails(lastcmap.key) =>
               lastcmap.result = viridis
C14_Witness ==
    /\ lastcmap.op = "resolve" /\ lastcmap.key = "" /\ lastcmap.result = viridis
    /\ \E k \in DOMAIN lastcmap.seen : ConstructionFails(k) /\ lastcmap.seen[k] = viridis

\* C15: every resolve of an identifier returns the palette the first resolve
\* of that identifier returned, and the first one returns what the registry
\* and matplotlib give for the identifier, whichever other identifiers were
\* resolved before it.
C15_Idempotent ==
    lastcmap.op = "resolve" =>
        /\ lastcmap.result = lastcmap.seen[lastcmap.key]
        /\ lastcmap.fresh => lastcmap.result = resolve_miss(lastcmap.key)
C15_Witness ==
    /\ lastcmap.op = "resolve" /\ lastcmap.key = "mono_brown" /\ ~lastcmap.fresh
    /\ {"plasma", "nosuch", "seq_plasma"} \subseteq DOMAIN lastcmap.seen
    /\ lastcmap.result = Palette("colors", "mono_brown", 0)

(***************************************************************************)
(* Claims on the preview window and the offset store, checked under        *)
(* SpecPreview.                                                            *)
(***************************************************************************)
WindowGone == ~win.exists /\ win.fig # 0
OpenFigures == {f.id : f \in figs}

\* C6 (as stated): once the preview window has been closed by the user, the
\* view lock is stopped and the figure the window showed is no longer open.
C6_Original == WindowGone => ~win.view_lock_active /\ win.fig \notin OpenFigures

\* C9 (as stated): every grid export and every newly opened grid preview is
\* drawn with the offsets the window held at the last save it reported as
\* successful (all zeros if nothing was ever saved).
C9_Original ==
    [][used'.n # used.n /\ used'.by \in {"export", "preview"} => used'.v = reported]_vars

(***************************************************************************)
(* Claims on the decoration anchors, checked under SpecPos.                *)
(***************************************************************************)
\* the anchors the code draws at with all offsets zero
base_anchor == anchors(deco.args, DEFAULT_ADJUSTMENTS)
Shifted(p, dx, dy) == Point(p.x + dx, p.y + dy)

\* C8 (as stated): for the scale bar, the north indicator and the shared
\* colorbar at any side, the anchor drawn equals the base anchor plus the
\* kind's offset vector, component by component.
C8_Original ==
    deco.drawn =>
        /\ deco.at.scale = Shifted(base_anchor.scale, deco.adj["scale_offset_x"],
                                   deco.adj["scale_offset_y"])
        /\ deco.at.north = Shifted(base_anchor.north, deco.adj["north_offset_x"],
                                   deco.adj["north_offset_y"])
        /\ deco.at.cbar = Shifted(base_anchor.cbar, deco.adj["cbar_offset_x"],
                                  deco.adj["cbar_offset_y"])

\* the anchor of the decoration kind a move was about
kind_anchor(at, mode) ==
    CASE mode = "colorbar" -> at.cbar
      [] mode = "scale"    -> at.scale
      [] mode = "north"    -> at.north
\* what the reported direction says about the anchor before and after
Went(direction, before, after) ==
    CASE direction = "up"    -> after.y > before.y /\ after.x = before.x
      [] direction = "down"  -> after.y < before.y /\ after.x = before.x
      [] direction = "right" -> after.x > before.x /\ after.y = before.y
      [] direction = "left"  -> after.x < before.x /\ after.y = before.y

\* C25 (as stated): the redraw after a move reported as up, down, left or
\* right puts the moved decoration's anchor strictly higher, lower, further
\* left or further right than it was, and leaves its other coordinate alone.
C25_Original ==
    [][deco.move = NoMove /\ deco'.move # NoMove =>
          Went(deco'.move.direction, kind_anchor(deco.at, deco'.move.mode),
               kind_anchor(deco'.at, deco'.move.mode))]_vars

(***************************************************************************)
(* Claims on the colorbar ticks, checked under SpecTicks.                  *)
(***************************************************************************)
NonDecreasing(seq) == \A i \in 1..(Len(seq) - 1) : seq[i] <= seq[i + 1]

\* C13: for every range vmin < vmax and every tick count N >= 2 asked for at
\* a colorbar (the single map's is always six, the shared and the per-panel
\* colorbars' is the caller's), the tick list has exactly N values in
\* non-decreasing order, the first exactly vmin and the last exactly vmax.
C13_Ticks ==
    calc.fn = "ticks" /\ calc.args.requested >= 2 =>
        /\ Len(calc.result) = calc.args.requested
        /\ NonDecreasing(calc.result)
        /\ calc.result[1] = calc.args.vmin
        /\ calc.result[Len(calc.result)] = calc.args.vmax
C13_Witness ==
    /\ calc.fn = "ticks" /\ calc.args.site = "panel"
    /\ calc.args.requested = 4 /\ calc.args.vmin = 0 /\ calc.args.vmax = 100
    /\ calc.result = <<0, 33, 66, 100>>

(***************************************************************************)
(* Claims on the raster ingest, checked under SpecIngest.                  *)
(***************************************************************************)
Ingested == calc.fn = "read_project_clip" /\ calc.done

\* C16: in every ingested grid each cell outside the boundary mask is NaN,
\* a finite cell is inside the mask and was finite after the reprojection,
\* annualizing leaves NaN cells NaN and finite cells finite, and an empty
\* mask gives an all-NaN grid.
C16_Clipped ==
    Ingested =>
        \A c \in Cells :
            /\ c \notin calc.args.mask => calc.result[c] = NaN
            /\ isfinite(calc.result[c]) =>
                   c \in calc.args.mask /\ isfinite(calc.args.arr[c])
            /\ c \in calc.args.mask =>
                   (isfinite(calc.result[c]) <=> isfinite(calc.args.arr[c]))
C16_Witness ==
    /\ Ingested /\ calc.args.as_yearly
    /\ calc.args.year_start = 2000 /\ calc.args.year_end = 2004
    /\ calc.args.mask = {1, 2}
    /\ calc.args.arr = <<Fl(700), NaN, Fl(-300)>>
    /\ calc.result = <<Fl(140), NaN, NaN>>

(***************************************************************************)
(* Claims on the path resolution, checked under SpecPath.                  *)
(***************************************************************************)
\* C17 (as stated): a pattern with wildcards resolves to a path only when it
\* matches exactly one file, and fails with an error when it matches none or
\* more than one; a path without wildcard that does not exist fails with a
\* not-found error.
C17_Original ==
    calc.fn = "resolve_path" /\ calc.done =>
        LET p == calc.args.path_pattern
            matches == glob(p, calc.args.existing)
        IN  IF p.wild
            THEN (calc.result.raised = "") <=> (Cardinality(matches) = 1)
            ELSE (matches = {}) => calc.result.raised = "FileNotFoundError"

(***************************************************************************)
(* Claims on reading the offset store, checked under SpecStore.            *)
(***************************************************************************)
\* the keys the store file holds
StoredKeys == IF store.state = "ok" THEN DOMAIN store.v ELSE {}

\* C18 (as stated): with the store file missing, not parsable or lacking
\* some of the six keys, the grid composition and the preview window both
\* take every offset that is not present as 0.0, without raising.
C18_Original ==
    calc.fn \in Consumers /\ calc.done =>
        /\ calc.result.raised = ""
        /\ \A key \in AdjKeys \ StoredKeys :
               key \in DOMAIN calc.result.v /\ calc.result.v[key] = 0

(***************************************************************************)
(* Claims on the grid layout, checked under SpecLayout.                    *)
(***************************************************************************)
LaidOut == calc.fn = "GridSpec" /\ calc.done
\* the bottom fraction of the same composition without caption
bottom_without_caption ==
    gs_bottom(calc.args.fig_h, calc.args.use_shared_cbar, calc.args.shared_cbar_loc, FALSE)

\* C19: for every canvas size, shared-colorbar setting and caption, the
\* layout fractions satisfy 0.01 <= left <= 0.2, 0.8 <= right <= 0.99,
\* 0.01 <= bottom <= 0.2 and 0.8 <= top <= 0.99, so left < right and
\* bottom < top; with a caption the bottom is not smaller than without.
C19_Layout ==
    LaidOut =>
        LET g == calc.result IN
        /\ 100 <= g.left /\ g.left <= 2000
        /\ 8000 <= g.right /\ g.right <= 9900
        /\ 100 <= g.bottom /\ g.bottom <= 2000
        /\ 8000 <= g.top /\ g.top <= 9900
        /\ g.left < g.right /\ g.bottom < g.top
        /\ calc.args.caption => g.bottom >= bottom_without_caption
C19_Witness ==
    /\ LaidOut /\ calc.args.fig_w = 20 /\ calc.args.fig_h = 540
    /\ calc.args.caption /\ ~calc.args.use_shared_cbar
    /\ calc.result.left = 2000 /\ calc.result.right = 8000
    /\ calc.result.bottom > bottom_without_caption

(***************************************************************************)
(* Claims on the scale-bar length, checked under SpecScale.                *)
(***************************************************************************)
\* 1, 2 or 5 times a power of ten
IsNice(km) == \E m \in {1, 2, 5}, k \in 0..(MaxDecades + 2) : km = m * 10^k
UserLength == ~calc.args.km_length.none /\ calc.args.km_length.km > 0

\* C20 (as stated): for every positive map width the automatically resolved
\* length is strictly positive, of the form m x 10^k with m in {1, 2, 5},
\* not smaller than the target width / 4.8 (in km) and smaller than 2.5
\* times the target; a user length > 0 is used unchanged.
C20_Original ==
    calc.fn = "draw_scale_bar_axes" /\ calc.done =>
        IF UserLength THEN calc.result = calc.args.km_length.km
        ELSE /\ calc.result > 0
             /\ IsNice(calc.result)
             /\ calc.result * 4800 >= calc.args.width_m
             /\ calc.result * 4800 * 2 < 5 * calc.args.width_m

(***************************************************************************)
(* Claims on the panel spacing, checked under SpecSpacing.                 *)
(***************************************************************************)
\* what the function just called gives for other row and column counts
spacing_for(nrows, ncols) ==
    IF calc.fn = "auto_layout_spacing"
    THEN auto_layout_spacing(nrows, ncols, calc.args.use_shared_cbar,
                             calc.args.shared_cbar_loc)
    ELSE optimize_layout(nrows, ncols, calc.args.use_shared_cbar,
                         calc.args.shared_cbar_loc)
SpacingReturned == calc.fn \in {"auto_layout_spacing", "optimize_layout"} /\ calc.done

\* C21: for all row and column counts >= 1 and every shared-colorbar
\* setting, both functions return strictly positive wspace and hspace;
\* wspace does not grow with one more column, hspace not with one more row.
C21_Spacing ==
    SpacingReturned =>
        /\ calc.result.wspace > 0 /\ calc.result.hspace > 0
        /\ spacing_for(calc.args.nrows, calc.args.ncols + 1).wspace <= calc.result.wspace
        /\ spacing_for(calc.args.nrows + 1, calc.args.ncols).hspace <= calc.result.hspace
C21_Witness ==
    /\ SpacingReturned /\ calc.fn = "auto_layout_spacing"
    /\ calc.args.ncols = 3 /\ calc.args.nrows = 2
    /\ calc.args.use_shared_cbar /\ calc.args.shared_cbar_loc = "right"
    /\ calc.result = [wspace |-> 50, hspace |-> 180]
    /\ spacing_for(2, 4).wspace = 50

(***************************************************************************)
(* Claims on custom palettes, checked under SpecStops.                     *)
(***************************************************************************)
Between(x, a, b) == (a <= x /\ x <= b) \/ (b <= x /\ x <= a)
Built == calc.fn = "from_list" /\ calc.done

\* C22: a palette built from breakpoints c0 .. ck (k >= 1) maps fraction 0.0
\* to exactly c0 and fraction 1.0 to exactly ck, and every stop in between
\* lies between the two neighbouring breakpoints of its place, in order.
C22_Endpoints ==
    Built =>
        LET colors == calc.args
            k == Len(colors) - 1
            scale == LutSize - 1
        IN  /\ calc.result[lut_index(0, 1)] = scale * colors[1]
            /\ calc.result[lut_index(1, 1)] = scale * colors[k + 1]
            /\ \A j \in 0..(LutSize - 1) :
                   \E i \in 1..k :
                       /\ (i - 1) * scale <= j * k /\ j * k <= i * scale
                       /\ Between(calc.result[j], scale * colors[i], scale * colors[i + 1])
C22_Witness ==
    /\ Built /\ calc.args = <<255, 0, 128>>
    /\ calc.result[0] = 255 * 255 /\ calc.result[255] = 255 * 128
    /\ calc.result[128] < calc.result[255]

(***************************************************************************)
(* Claims on the view lock, checked under SpecLock.                        *)
(***************************************************************************)
LockEnabled == lock.exists /\ lock.view_lock_active

\* C23 (as stated): while the window exists and the view lock is enabled,
\* the view is re-locked periodically: whenever the lock is enabled, a
\* further re-lock eventually happens (or the lock is disabled or the
\* window closed first), also after the lock was disabled and enabled again.
C23_Original ==
    \A n \in 0..(RelockPhases - 1) :
        (LockEnabled /\ lock.relocks = n) ~> (lock.relocks # n \/ ~LockEnabled)


(***************************************************************************)
(* Claims about what one operation of the preview window does to the six  *)
(* offset entries                                                          *)
(***************************************************************************)
\* the two entries DEFAULT_ADJUSTMENTS lists for each decoration kind
KindKeys(mode) ==
    CASE mode = "colorbar" -> {"cbar_offset_y", "cbar_offset_x"}
      [] mode = "scale"    -> {"scale_offset_x", "scale_offset_y"}
      [] mode = "north"    -> {"north_offset_x", "north_offset_y"}
OtherKeys(mode) == AdjKeys \ KindKeys(mode)
StepSizes == {step_map[n] : n \in StepNames}
\* one of the selected kind's two entries changed by plus or minus a step
OneMove(before, after, mode) ==
    \E key \in KindKeys(mode), step \in StepSizes :
       /\ after[key] - before[key] \in {step, 0 - step}
       /\ \A other \in AdjKeys \ {key} : after[other] = before[other]
\* the selected kind's two entries are 0, the rest is as before
CurrentReset(before, after, mode) ==
    /\ \A key \in KindKeys(mode) : after[key] = 0
    /\ \A other \in OtherKeys(mode) : after[other] = before[other]
WindowOperation == win.exists /\ win'.exists /\ win'.adjustments # win.adjustments

\* C24: every operation of the open preview window that changes the offsets
\* while kind M is selected is a move of exactly one of M's two entries by
\* plus or minus a step, or a reset of M's two entries to 0, both leaving the
\* four entries of the other two kinds as they were, or it is reset-all and
\* leaves all six entries 0.
C24_OtherKindsKept ==
    [][WindowOperation =>
          \/ OneMove(win.adjustments, win'.adjustments, win.adjust_mode)
          \/ CurrentReset(win.adjustments, win'.adjustments, win.adjust_mode)
          \/ win'.adjustments = DEFAULT_ADJUSTMENTS]_vars
\* the north indicator was moved after the scale bar had been moved: the
\* scale bar's entry is still where the earlier move left it
C24_Witness ==
    /\ win.exists /\ win.adjust_mode = "north" /\ used.by = "redraw"
    /\ win.adjustments["north_offset_y"] # 0
    /\ win.adjustments["scale_offset_x"] # 0
    /\ win.adjustments["cbar_offset_x"] = 0 /\ win.adjustments["cbar_offset_y"] = 0

(***************************************************************************)
(* Claim on the range of the offsets, checked under SpecWindow.            *)
(***************************************************************************)
\* the ranges the comments of DEFAULT_ADJUSTMENTS document, in
\* ten-thousandths: -0.1 to 0.1 for the colorbar, -0.2 to 0.2 for the rest
documented_range(key) ==
    IF key \in {"cbar_offset_y", "cbar_offset_x"} THEN -1000..1000 ELSE -2000..2000

\* C26 (as stated): whatever buttons and keys were used, every offset the
\* window holds lies within its documented range.
C26_Original ==
    win.exists => \A key \in AdjKeys : win.adjustments[key] \in documented_range(key)

(***************************************************************************)
(* Claim on the ruler labels, checked under SpecRuler.                     *)
(***************************************************************************)
RulerDrawn == calc.fn = "draw_scale_bar_ruler" /\ calc.done

\* C27 (as stated): with T >= 2 ticks on a bar of length L, the number
\* printed at tick i is the exact distance L * i / (T - 1) of that tick from
\* the start of the bar; the first label is 0 and the last is L with the unit.
C27_Original ==
    RulerDrawn /\ calc.args.num_ticks >= 2 =>
        LET L == calc.args.km_length
            T == calc.args.num_ticks
        IN  /\ \A i \in 0..(T - 1) : calc.result[i].value * (T - 1) = L * i
            /\ calc.result[0] = Label(0, FALSE)
            /\ calc.result[T - 1] = Label(L, TRUE)

(***************************************************************************)
(* Claim on the single map's scale bar, checked under SpecSingle.          *)
(***************************************************************************)
\* the bar the form asks for: its length entry (resolved when blank) at the
\* x and y padding entries
FormBar(form, width_m) ==
    Bar(resolved_km_length(form.length, width_m), Point(form.x, 0 - form.y))

\* C28 (as stated): the preview and the export of a single map both draw
\* the scale bar the form asks for (same resolved length, same anchor), so
\* no scale-bar setting is lost between the caller and the renderer.
C28_Original ==
    calc.fn \in {"preview_single", "export_single"} /\ calc.done =>
        calc.result = FormBar(calc.args.form, calc.args.width_m)

(***************************************************************************)
(* Claim on the panels of a shared-colorbar grid, checked under            *)
(* SpecPanels.                                                             *)
(***************************************************************************)
SharedGridDrawn == calc.fn = "make_grid_map" /\ calc.done /\ calc.args.use_shared_cbar

\* C29 (as stated): in shared-colorbar mode every panel image has the
\* palette and the limits of the shared colorbar, whatever panel_cmaps is.
C29_Original ==
    SharedGridDrawn =>
        \A i \in 1..calc.args.n : calc.result.images[i] = calc.result.colorbar[1]

(***************************************************************************)
(* Claim on the style dispatchers, checked under SpecStyle.                *)
(***************************************************************************)
Dispatched == calc.fn \in {"_draw_scale_bar", "_draw_north_arrow"} /\ calc.done
\* the one renderer the style name selects
selected_renderer ==
    IF calc.args.style \in calc.args.registered THEN "custom_func"
    ELSE IF calc.fn = "_draw_scale_bar" THEN scale_renderer(calc.args.style)
    ELSE north_renderer(calc.args.style)

\* C30 (as stated): a call of a dispatcher invokes exactly one renderer, the
\* registered custom one, else the built-in one of that name, else the
\* default; nothing more is drawn when the custom renderer raises.
C30_Original == Dispatched => calc.result = <<selected_renderer>>

====
